---------------------------- MODULE Spec2Model ----------------------------
(***************************************************************************)
(* A model of the VPIR / PIR stack of the repository:                      *)
(*   - the GF(2^128) element layer (lib/field),                            *)
(*   - the single-bit information-theoretic client ITSingleGF and the      *)
(*     single-bit server path,                                             *)
(*   - the multi-bit answer engine and the classical-PIR XOR engine,       *)
(*   - the client orchestration (runQueries),                              *)
(*   - the Merkle proof layer and the proof codec.                         *)
(*                                                                         *)
(* A 64-bit limb is the set of its set bit positions (bit p has weight     *)
(* 2^p), so XOR is the symmetric difference and no arithmetic overflows.   *)
(***************************************************************************)
EXTENDS Integers, Sequences, FiniteSets, TLC

VARIABLES
    \* ---- ITSingleGF client, single-bit servers and their test harness
    gfPc,          \* position of the harness: idle/queried/answered/done/panic
    rebalanced,    \* ITSingleGF.rebalanced (and the servers' layout)
    state,         \* ITSingleGF.state: <<>> (nil) or <<[ix, iy, alpha, dbLength]>>
    db,            \* the replicated single-bit database (Entries, row-major)
    qIndex,        \* the index passed to the last Query
    qServers,      \* the numServers passed to the last Query
    vectors,       \* what Query returned: one vector per server
    answers,       \* the answers collected so far, in server order
    tamper,        \* <<>> or <<[server, pos, delta]>>: the one changed element
    result,        \* what Reconstruct returned: [val, err], val <<>> for nil
    \* ---- multi-bit answer engine (server.answer)
    anPc,          \* ready/running/done
    anDb,          \* database.DB: Entries, NumRows, NumColumns, BlockSize
    anQuery,       \* q
    anCores,       \* runtime.NumCPU()
    anWork,        \* the goroutines started and not yet finished (chunks)
    anChan,        \* resultsChan: the replies of the column workers not yet received
    anTaken,       \* the replies combineColumnResults has received, in order
    anProduct,     \* product of combineColumnResults
    anM,           \* m, the output buffer the row workers write into
    anOut,         \* what answer returned
    \* ---- classical PIR (server.answerPIR and its two-server client)
    pirPc,         \* idle/queried/running/answered/done
    pirDb,         \* database.Bytes: Entries, NumRows, NumColumns, BlockSize
    pirIndex,      \* the index the client asked for
    pirCores,      \* runtime.NumCPU()
    pirQueries,    \* the two bit-packed queries
    pirWork,       \* the goroutines of the running answerPIR
    pirChan,       \* resultsChan of the running answerPIR: replies not yet received
    pirTaken,      \* the replies combineColumnXORs has received, in order
    pirSum,        \* sum of combineColumnXORs
    pirM,          \* m of the running answerPIR
    pirAnswers,    \* the answers returned so far, in server order
    pirBlock,      \* what the client reconstructed
    \* ---- client orchestration (localClient.runQueries)
    rqPc,          \* spawning/waiting/done
    rqQueries,     \* queries, one per server
    rqConnOrder,   \* the order in which range lc.connections yields the servers
    rqSpawned,     \* j: the goroutines started so far
    rqWorker,      \* position of goroutine j: running/sent/done
    rqResCh,       \* resCh, in arrival order
    rqWg,          \* the WaitGroup counter
    rqOut,         \* what runQueries returned
    \* ---- Merkle tree and proofs
    mkPc,          \* data/built/err/proved/verified/done
    mkData,        \* the blocks the tree is built from
    mkTree,        \* <<>> or <<[n, nodes, md]>>
    mkProof,       \* <<>> or <<the proof GenerateProof returned>>
    mkProofFor,    \* the position (from 1) of the block the proof was asked for
    mkVerified,    \* <<>> or <<what VerifyProof returned for that block>>
    mkOther,       \* <<>> or <<[block, ok]>>: VerifyProof for another block
    \* ---- proof codec (encodeProof / DecodeProof)
    pfPc,          \* proof/encoded/decoded
    pfProof,       \* <<>> or <<[Hashes, Index]>>, Index a 64-bit limb
    pfBytes,       \* encodeProof(pfProof)
    pfDecoded,     \* <<>> or <<DecodeProof(pfBytes)>>
    \* ---- database persistence (DB.SaveDB / LoadDB)
    stPc,          \* db/saved/loaded
    stDb,          \* the DB to persist: Info and inMemory
    stStore,       \* the bucket: a function from keys to values
    stLoaded,      \* <<>> or <<the DB LoadDB returned>>
    stExists,      \* whether the file holds the bucket
    stBefore,      \* the file as the last SaveDB call found it
    stErr,         \* what the last SaveDB call returned
    stSaves,       \* the SaveDB calls made
    \* ---- the workers of answer / answerPIR (synchronisation only)
    wkPc,          \* loop/combine/wait/done
    wkEngine,      \* "answer" or "answerPIR"
    wkDb,          \* the geometry: NumRows, NumColumns, BlockSize
    wkCores,       \* runtime.NumCPU()
    wkJ,           \* j of the spawning loop
    wkStep,        \* columnsPerCore / rowsPerCore
    wkWorkers,     \* the goroutines started: their chunk, output region and progress
    wkChan,        \* resultsChan: the workers whose reply waits in it
    wkReceived,    \* the workers whose reply the reducer has added
    wkWrites,      \* for each output slot, the workers that wrote it
    wkWg,          \* the WaitGroup counter
    \* ---- field multiplication on its own
    muPc,          \* position: "off", "operands", "done"
    muX,           \* the left operand
    muY,           \* the right operand
    muProduct,     \* Mul(muX, muY), <<>> before the call
    \* ---- the life of the client state over several queries
    lfPc,          \* position: "off", "idle", "queried", "reconstructed"
    lfRebalanced,  \* c.rebalanced
    lfDb,          \* the database of the servers
    lfState,       \* c.state: <<>> for nil, else <<state>>
    lfOwner,       \* the number of the Query that stored c.state
    lfIssued,      \* the queries issued so far, each with the answers to it
    lfLog,         \* the Reconstruct calls made so far
    \* ---- the Merkle-augmented database
    mbPc,          \* position: "off", "db", "done" or the message of log.Fatalf
    mbDb,          \* the database CreateRandomMultiBitBytes returned
    mbBlockLen,    \* blockLen
    mbOut,         \* the database CreateRandomMultiBitMerkle returned
    \* ---- draws from one XOF stream
    xsPc,          \* position: "off", "open"
    xsStream,      \* the bytes the XOF will deliver, in order
    xsOffset,      \* the number of bytes read from the XOF so far
    xsDraws,       \* the draws made so far: what was asked, where it started, what it gave
    \* ---- multiplication with a precomputed table
    tbPc,          \* position: "off", "fresh", "precomputed", "done"
    tbE,           \* the element e: its value and its product table
    tbY,           \* the element y: its value
    tbBefore,      \* the values of e and y before MulBy
    \* ---- rebalancing a database of any length
    rbPc,          \* position: "off", "length", "geometry", "queried"
    rbN,           \* the database length N
    rbGeometry,    \* what CalculateNumRowsAndColumns returned, <<>> before
    rbIndex,       \* the index of the query
    rbState,       \* the client state of the rebalanced query, <<>> before
    \* ---- the ITVector client (integers modulo cst.Modulo)
    ivPc,          \* position: "off", "idle", "queried", "answered", "done"
    ivDb,          \* the bits of the database
    ivState,       \* c.state: <<>> for nil, else <<[i, alpha]>>
    ivVectors,     \* the query vectors, one per server
    ivAnswers,     \* the answers given to Reconstruct
    ivHonest,      \* whether the answers are those of honest servers
    ivResult,      \* what Reconstruct returned, <<>> before
    \* ---- the repetition code
    ecPc,          \* position: "off", "word", "encoded", "received", "done"
    ecT,           \* the parameter t of the code
    ecWord,        \* the word given to Encode
    ecIn,          \* the words given to Decode
    ecOut,         \* what Decode returned, <<>> before
    \* ---- localClient.exec: DB-info negotiation, then the queries
    clPhase,       \* where exec is: the call that runs, or how the process ended
    clPc,          \* where the running fan-out call is
    clInfos,       \* the database info each server reports
    clConnOrder,   \* the order in which the running call ranges over the map lc.connections
    clBlocks,      \* how many blocks retrievePointPIR is to retrieve
    clRuns,        \* the runQueries calls made so far
    clQueries,     \* the queries of the running runQueries call
    clSpawned,     \* goroutines started by the running call
    clWorker,      \* the state of each goroutine of the running call
    clRequests,    \* the requests the running call has sent, each with its goroutine
    clResCh,       \* the buffered channel resCh
    clWg,          \* the WaitGroup counter
    clOut,         \* what the last fan-in collected
    clDbInfo       \* lc.dbInfo, absent or one info

gfVars  == <<gfPc, rebalanced, state, db, qIndex, qServers, vectors, answers,
             tamper, result>>
anVars  == <<anPc, anDb, anQuery, anCores, anWork, anChan, anTaken, anProduct, anM, anOut>>
pirVars == <<pirPc, pirDb, pirIndex, pirCores, pirQueries, pirWork, pirChan, pirTaken, pirSum, pirM,
             pirAnswers, pirBlock>>
rqVars  == <<rqPc, rqQueries, rqConnOrder, rqSpawned, rqWorker, rqResCh, rqWg, rqOut>>
mkVars  == <<mkPc, mkData, mkTree, mkProof, mkProofFor, mkVerified, mkOther>>
pfVars  == <<pfPc, pfProof, pfBytes, pfDecoded>>
stVars  == <<stPc, stDb, stStore, stLoaded, stExists, stBefore, stErr, stSaves>>
wkVars  == <<wkPc, wkEngine, wkDb, wkCores, wkJ, wkStep, wkWorkers, wkChan, wkReceived, wkWrites, wkWg>>
muVars  == <<muPc, muX, muY, muProduct>>
lfVars  == <<lfPc, lfRebalanced, lfDb, lfState, lfOwner, lfIssued, lfLog>>
mbVars  == <<mbPc, mbDb, mbBlockLen, mbOut>>
xsVars  == <<xsPc, xsStream, xsOffset, xsDraws>>
tbVars  == <<tbPc, tbE, tbY, tbBefore>>
rbVars  == <<rbPc, rbN, rbGeometry, rbIndex, rbState>>
ivVars  == <<ivPc, ivDb, ivState, ivVectors, ivAnswers, ivHonest, ivResult>>
ecVars  == <<ecPc, ecT, ecWord, ecIn, ecOut>>
clVars  == <<clPhase, clPc, clInfos, clConnOrder, clBlocks, clRuns, clQueries, clSpawned, clWorker, clRequests, clResCh, clWg, clOut, clDbInfo>>
vars    == <<gfVars, anVars, pirVars, rqVars, mkVars, pfVars, stVars, wkVars, muVars, lfVars, mbVars, xsVars, tbVars, rbVars, ivVars, ecVars, clVars>>

(***************************************************************************)
(* Generic helpers                                                         *)
(***************************************************************************)
Min(a, b) == IF a < b THEN a ELSE b

\* Go's integer division and remainder truncate towards zero.
GoDiv(a, b) == IF a >= 0 THEN a \div b ELSE -((-a) \div b)

GoMod(a, b) == a - b * GoDiv(a, b)

RECURSIVE Pow2(_)
Pow2(n) == IF n = 0 THEN 1 ELSE 2 * Pow2(n - 1)

\* ceil(a / b) for a >= 0, b > 0
CeilDiv(a, b) == (a + b - 1) \div b

\* int(math.Sqrt(float64(n))) for the small n of the model
RECURSIVE IntSqrtFrom(_, _)
IntSqrtFrom(n, r) == IF (r + 1) * (r + 1) > n THEN r ELSE IntSqrtFrom(n, r + 1)

IntSqrt(n) == IntSqrtFrom(n, 0)

(***************************************************************************)
(* lib/field: GF(2^128) elements                                           *)
(***************************************************************************)
LimbBits == 64

\* x ^ y on limbs
LimbXor(x, y) == (x \ y) \cup (y \ x)

\* x >> n and x << n on 64-bit limbs
LimbShr(x, n) == {p - n : p \in {q \in x : q >= n}}

LimbShl(x, n) == {p + n : p \in {q \in x : q + n < LimbBits}}

\* the limb holding the (small) number n, and the number held by a small limb
RECURSIVE BitsFrom(_, _)
BitsFrom(n, p) ==
    IF n = 0 THEN {}
    ELSE (IF n % 2 = 1 THEN {p} ELSE {}) \cup BitsFrom(n \div 2, p + 1)

LimbOf(n) == BitsFrom(n, 0)

RECURSIVE LimbVal(_)
LimbVal(x) ==
    IF x = {} THEN 0
    ELSE LET p == CHOOSE q \in x : TRUE IN Pow2(p) + LimbVal(x \ {p})

\* binary.BigEndian.Uint64 of 8 bytes (a sequence of 8 numbers in 0..255)
BigEndianUint64(b) ==
    UNION {{8 * (8 - k) + p : p \in LimbOf(b[k])} : k \in 1..8}

\* binary.BigEndian.PutUint64
PutBigEndianUint64(x) ==
    [k \in 1..8 |-> LimbVal({p - 8 * (8 - k) : p \in
                        {q \in x : q \div 8 = 8 - k}})]

\* NewElement(in): panics unless in holds 16 bytes
NewElement(in) ==
    IF Len(in) # 16
    THEN [panic |-> "incorrect length"]
    ELSE [low |-> BigEndianUint64(SubSeq(in, 1, 8)),
          high |-> BigEndianUint64(SubSeq(in, 9, 16))]

Zero == [low |-> {}, high |-> {}]

\* an element whose only set bit is bit 0 of low (low = 1)
OneLowBit == [low |-> {0}, high |-> {}]

One == [low |-> {63}, high |-> {}]

Gen == [low |-> {62}, high |-> {}]

gcmAdd(x, y) == [low |-> LimbXor(x.low, y.low), high |-> LimbXor(x.high, y.high)]

Add(x, y) == gcmAdd(x, y)

Equal(e, x) == e.high = x.high /\ e.low = x.low

IsZero(e) == Equal(e, Zero)

\* reverseBits reverses the order of the bits of the 4-bit number i
reverseBits(i) ==
    LET j == ((i % 4) * 4) + ((i \div 4) % 4)
    IN  ((j % 2) * 2) + (((j \div 4) % 2) * 8)
          + ((j \div 2) % 2) + (((j \div 8) % 2) * 4)

gcmReductionTable ==
    <<0, 7200, 14400, 9312, 28800, 27808, 18624, 21728,
      57600, 64800, 55616, 50528, 37248, 36256, 43456, 46560>>

\* gcmMultiplyByH: the element times x; 0xe100000000000000 is bits 63..61, 56
gcmMultiplyByH(x) ==
    LET msbSet == 0 \in x.high
        high == LimbShr(x.high, 1) \cup LimbShl(x.low, 63)
        low == LimbShr(x.low, 1)
    IN  [low |-> IF msbSet THEN LimbXor(low, {63, 62, 61, 56}) ELSE low,
         high |-> high]

\* entry i (before the bit reversal of the index) of the product table of e
RECURSIVE ProductEntry(_, _)
ProductEntry(e, i) ==
    IF i = 0 THEN Zero
    ELSE IF i = 1 THEN e
    ELSE IF i % 2 = 0 THEN gcmMultiplyByH(ProductEntry(e, i \div 2))
    ELSE gcmAdd(ProductEntry(e, i - 1), e)

\* createProductTable: productTable[reverseBits(i)] holds entry i
createProductTable(e) == [k \in 0..15 |-> ProductEntry(e, reverseBits(k))]

\* the 4-bit steps of Mul: 16 over the limb y.high, then 16 over y.low
\* (words holds the limbs still to be processed, the current one first;
\* the test on z makes TLC compute each intermediate z before the next step)
RECURSIVE MulSteps(_, _, _, _)
MulSteps(z, words, productTable, steps) ==
    IF words = <<>> \/ z.low \notin SUBSET (0..63) THEN z
    ELSE IF steps = 0 THEN MulSteps(z, Tail(words), productTable, 16)
    ELSE LET word == Head(words)
             msw == LimbVal(z.high \cap 0..3)
             high == LimbShr(z.high, 4) \cup LimbShl(z.low, 60)
             low == LimbXor(LimbShr(z.low, 4),
                            LimbShl(LimbOf(gcmReductionTable[msw + 1]), 48))
             t == productTable[LimbVal(word \cap 0..3)]
             next == [low |-> LimbXor(low, t.low), high |-> LimbXor(high, t.high)]
         IN  MulSteps(next, <<LimbShr(word, 4)>> \o Tail(words), productTable,
                      steps - 1)

\* Multiply the two field elements
Mul(e, y) == MulSteps(Zero, <<y.high, y.low>>, createProductTable(e), 16)

ElementBytes(e) == PutBigEndianUint64(e.low) \o PutBigEndianUint64(e.high)

RandomXOF(bytes) == NewElement(bytes)

\* RandomVectorXOF reads length*16+1 bytes and cuts the first length*16 of
\* them into elements; `bytes` is what io.ReadFull delivered.
RandomVectorXOFBytes(length) == length * 16 + 1

RandomVectorXOF(length, bytes) ==
    [k \in 1..length |-> NewElement(SubSeq(bytes, 16 * (k - 1) + 1, 16 * k))]

(***************************************************************************)
(* Bounds and input sets                                                   *)
(***************************************************************************)
\* the largest server count a query is built for
MaxServers == 3

\* cst.DBLength, scaled down to the smallest square with more than one row,
\* so that the vector and the rebalanced layout hold the same database
DBLength == 4

\* 16-byte blocks the XOF can deliver: the encodings of 0, 1, x^127 and
\* 1 + x^127, a set of elements closed under addition
BlockOf(first, last) ==
    [k \in 1..16 |-> IF k = 1 THEN first ELSE IF k = 16 THEN last ELSE 0]

XofBlocks == {BlockOf(f, l) : f \in {0, 128}, l \in {0, 1}}

XofElements == {NewElement(b) : b \in XofBlocks}

RECURSIVE Concat(_)
Concat(seqs) == IF seqs = <<>> THEN <<>> ELSE Head(seqs) \o Concat(Tail(seqs))

\* what the XOF delivers to one RandomVectorXOF(length) call: length blocks
\* (of period two) and the one byte more that is read
XofVectorReads(length) ==
    {Concat([k \in 1..length |-> blk[((k - 1) % 2) + 1]]) \o <<0>> :
        blk \in [1..2 -> XofBlocks]}

\* every sequence of length blocks, for the properties that range over all
\* the outputs of the XOF
XofVectorReadsAll(length) ==
    {Concat(blk) \o <<0>> : blk \in [1..length -> XofBlocks]}

\* the single-bit databases: every 0/1 content of DBLength entries
BitEntries == [1..DBLength -> {Zero, One}]

\* the values a misbehaving server adds to one element of its answer
Deltas == {One, Gen}

(***************************************************************************)
(* ITSingleGF client (single-bit scheme in GF(2^128))                      *)
(***************************************************************************)
RECURSIVE SumElements(_)
SumElements(s) == IF s = <<>> THEN Zero ELSE Add(Head(s), SumElements(Tail(s)))

\* return true if the query inputs are invalid
invalidQueryInputs(index, numServers) ==
    (index < 0 \/ index > DBLength) /\ numServers < 1

\* return true if the query inputs are invalid for IT schemes
invalidQueryInputsIT(index, numServers) == index < 0 /\ numServers < 2

\* return true if the query inputs are invalid for DPF-based schemes
invalidQueryInputsDPF(index, numServers) == index < 0 /\ numServers # 2

\* the two panics that open ITVector.Query
ITVectorQueryPanics(index, numServers) ==
    (index < 0 \/ index > DBLength) \/ numServers < 1

\* the client state Query stores in the rebalanced case, for a database of
\* length n
RebalancedState(n, index, alpha) ==
    LET dbLengthSqrt == IntSqrt(n)
    IN  [ix |-> GoMod(index, dbLengthSqrt),
         iy |-> GoDiv(index, dbLengthSqrt),
         alpha |-> alpha,
         dbLength |-> dbLengthSqrt]

\* the client state Query stores
QueryState(reb, index, alpha) ==
    IF ~reb
    THEN [ix |-> index, iy |-> 0, alpha |-> alpha, dbLength |-> DBLength]
    ELSE RebalancedState(DBLength, index, alpha)

\* the plaintext vector: alpha at position ix (0-based), zero elsewhere
Eialpha(st) ==
    [i \in 1..st.dbLength |-> IF i - 1 = st.ix THEN st.alpha ELSE Zero]

\* secretSharing whose last vector is eialpha itself, without the sum of the
\* random vectors
secretSharingWithoutSum(st, numServers, randomElements) ==
    [k \in 1..numServers |->
        [i \in 1..st.dbLength |->
            IF k < numServers THEN randomElements[i] ELSE Eialpha(st)[i]]]

\* secretSharing for numServers >= 1 (with 0 servers it panics, see Query):
\* the first numServers-1 vectors all hold randomElements, the last one
\* holds eialpha plus the sum of the others
secretSharing(st, numServers, randomElements) ==
    [k \in 1..numServers |->
        [i \in 1..st.dbLength |->
            IF k < numServers
            THEN randomElements[i]
            ELSE Add(Eialpha(st)[i],
                     SumElements([j \in 1..(numServers - 1) |-> randomElements[i]]))]]

\* Reconstruct returns [val, err]: val is <<>> for nil, err is "nil", "REJECT!"
\* or "panic" (sum[i] out of range)
NoResult == [val |-> <<>>, err |-> "unset"]

ReconstructSum(ans, i) == SumElements([s \in 1..Len(ans) |-> ans[s][i]])

ReconstructSelect(reb, st) == IF reb THEN st.iy ELSE 0

\* Reconstruct without the check of every position: only the selected one
ReconstructTargetOnly(reb, st, ans) ==
    LET answersLen == Len(ans[1])
        i0 == ReconstructSelect(reb, st)
    IN  IF i0 < 0 \/ i0 >= answersLen
        THEN [val |-> <<>>, err |-> "panic"]
        ELSE IF Equal(ReconstructSum(ans, i0 + 1), st.alpha)
        THEN [val |-> <<One>>, err |-> "nil"]
        ELSE IF Equal(ReconstructSum(ans, i0 + 1), Zero)
        THEN [val |-> <<Zero>>, err |-> "nil"]
        ELSE [val |-> <<>>, err |-> "REJECT!"]

Reconstruct(reb, st, ans) ==
    LET answersLen == Len(ans[1])
        bad == {i \in 1..answersLen :
                   /\ ~Equal(ReconstructSum(ans, i), st.alpha)
                   /\ ~Equal(ReconstructSum(ans, i), Zero)}
        i0 == ReconstructSelect(reb, st)
    IN  IF bad # {}
        THEN [val |-> <<>>, err |-> "REJECT!"]
        ELSE IF i0 < 0 \/ i0 >= answersLen
        THEN [val |-> <<>>, err |-> "panic"]
        ELSE IF Equal(ReconstructSum(ans, i0 + 1), st.alpha)
        THEN [val |-> <<One>>, err |-> "nil"]
        ELSE IF Equal(ReconstructSum(ans, i0 + 1), Zero)
        THEN [val |-> <<Zero>>, err |-> "nil"]
        ELSE [val |-> <<>>, err |-> "REJECT!"]

(***************************************************************************)
(* server.answer, single-bit path                                          *)
(***************************************************************************)
SingleBitBlockLength == 0

NumRowsOf(reb) == IF reb THEN IntSqrt(DBLength) ELSE 1

NumColumnsOf(reb) == IF reb THEN IntSqrt(DBLength) ELSE DBLength

answerSingleBit(q, d) ==
    [i \in 1..d.NumRows |->
        SumElements([j \in 1..d.NumColumns |->
            IF Equal(d.Entries[(i - 1) * d.NumColumns + j], One)
            THEN q[j] ELSE Zero])]

(***************************************************************************)
(* The variable groups a specification does not use rest in these states.  *)
(***************************************************************************)
gfIdle ==
    /\ gfPc = "off" /\ rebalanced = FALSE /\ state = <<>> /\ db = <<>>
    /\ qIndex = 0 /\ qServers = 0 /\ vectors = <<>> /\ answers = <<>>
    /\ tamper = <<>> /\ result = NoResult

anIdle ==
    /\ anPc = "off" /\ anDb = <<>> /\ anQuery = <<>> /\ anCores = 0
    /\ anWork = {} /\ anChan = <<>> /\ anM = <<>> /\ anOut = <<>>
    /\ anTaken = <<>> /\ anProduct = <<>>

pirIdle ==
    /\ pirPc = "off" /\ pirDb = <<>> /\ pirIndex = 0 /\ pirCores = 0
    /\ pirQueries = <<>> /\ pirWork = {} /\ pirChan = <<>> /\ pirM = <<>>
    /\ pirTaken = <<>> /\ pirSum = <<>>
    /\ pirAnswers = <<>> /\ pirBlock = <<>>

rqIdle ==
    /\ rqPc = "off" /\ rqQueries = <<>> /\ rqConnOrder = <<>> /\ rqSpawned = 0
    /\ rqWorker = <<>> /\ rqResCh = <<>> /\ rqWg = 0 /\ rqOut = <<>>

mkIdle ==
    /\ mkPc = "off" /\ mkData = <<>> /\ mkTree = <<>> /\ mkProof = <<>>
    /\ mkProofFor = 0 /\ mkVerified = <<>> /\ mkOther = <<>>

pfIdle ==
    /\ pfPc = "off" /\ pfProof = <<>> /\ pfBytes = <<>> /\ pfDecoded = <<>>

stIdle ==
    /\ stPc = "off"
    /\ stDb = <<>>
    /\ stStore = <<>>
    /\ stLoaded = <<>>
    /\ stExists = FALSE
    /\ stBefore = [exists |-> FALSE, bucket |-> <<>>]
    /\ stErr = ""
    /\ stSaves = 0

wkIdle ==
    /\ wkPc = "off"
    /\ wkEngine = ""
    /\ wkDb = <<>>
    /\ wkCores = 0
    /\ wkJ = 0
    /\ wkStep = 0
    /\ wkWorkers = <<>>
    /\ wkChan = <<>>
    /\ wkReceived = <<>>
    /\ wkWrites = <<>>
    /\ wkWg = 0

muIdle ==
    /\ muPc = "off"
    /\ muX = Zero
    /\ muY = Zero
    /\ muProduct = <<>>

lfIdle ==
    /\ lfPc = "off"
    /\ lfRebalanced = FALSE
    /\ lfDb = <<>>
    /\ lfState = <<>>
    /\ lfOwner = 0
    /\ lfIssued = <<>>
    /\ lfLog = <<>>

mbIdle ==
    /\ mbPc = "off"
    /\ mbDb = <<>>
    /\ mbBlockLen = 0
    /\ mbOut = <<>>

xsIdle ==
    /\ xsPc = "off"
    /\ xsStream = <<>>
    /\ xsOffset = 0
    /\ xsDraws = <<>>

tbIdle ==
    /\ tbPc = "off"
    /\ tbE = <<>>
    /\ tbY = <<>>
    /\ tbBefore = <<>>

rbIdle ==
    /\ rbPc = "off"
    /\ rbN = 0
    /\ rbGeometry = <<>>
    /\ rbIndex = 0
    /\ rbState = <<>>

ivIdle ==
    /\ ivPc = "off"
    /\ ivDb = <<>>
    /\ ivState = <<>>
    /\ ivVectors = <<>>
    /\ ivAnswers = <<>>
    /\ ivHonest = FALSE
    /\ ivResult = <<>>

ecIdle ==
    /\ ecPc = "off"
    /\ ecT = 0
    /\ ecWord = 0
    /\ ecIn = <<>>
    /\ ecOut = <<>>

clIdle ==
    /\ clPhase = "off"
    /\ clPc = "off"
    /\ clInfos = <<>>
    /\ clConnOrder = <<>>
    /\ clBlocks = 0
    /\ clRuns = 0
    /\ clQueries = <<>>
    /\ clSpawned = 0
    /\ clWorker = <<>>
    /\ clRequests = {}
    /\ clResCh = <<>>
    /\ clWg = 0
    /\ clOut = <<>>
    /\ clDbInfo = <<>>

(***************************************************************************)
(* ITSingleGF: the client, three or fewer single-bit servers, and a        *)
(* server that may change one element of its answer                       *)
(***************************************************************************)
notGF == <<anVars, pirVars, rqVars, mkVars, pfVars, stVars, wkVars, muVars, lfVars, mbVars, xsVars, tbVars, rbVars, ivVars, ecVars, clVars>>

\* NewITSingleGF(xof, rebalanced) and server.NewITSingleGF(rebalanced, db)
GFInit ==
    /\ anIdle /\ pirIdle /\ rqIdle /\ mkIdle /\ pfIdle /\ stIdle /\ wkIdle /\ muIdle /\ lfIdle /\ mbIdle /\ xsIdle /\ tbIdle /\ rbIdle /\ ivIdle /\ ecIdle /\ clIdle
    /\ gfPc = "idle"
    /\ rebalanced \in BOOLEAN
    /\ state = <<>>
    /\ \E e \in BitEntries :
          db = [b \in BOOLEAN |->
                  [Entries |-> e, NumRows |-> NumRowsOf(b),
                   NumColumns |-> NumColumnsOf(b),
                   BlockSize |-> SingleBitBlockLength]]
    /\ qIndex = 0 /\ qServers = 0 /\ vectors = <<>> /\ answers = <<>>
    /\ tamper = <<>> /\ result = NoResult

\* c.Query(index, numServers)
GFQuery ==
    /\ gfPc = "idle"
    /\ \E index \in (-1)..DBLength, numServers \in 0..MaxServers,
          alphaBytes \in XofBlocks :
          LET st == QueryState(rebalanced, index, RandomXOF(alphaBytes)) IN
          /\ qIndex' = index
          /\ qServers' = numServers
          /\ answers' = <<>> /\ tamper' = <<>> /\ result' = NoResult
          /\ IF invalidQueryInputs(index, numServers)
             THEN \* panic("invalid query inputs")
                  /\ gfPc' = "panic"
                  /\ UNCHANGED <<state, vectors>>
             ELSE IF numServers = 0
             THEN \* vectors[numServers-1]: index out of range
                  /\ gfPc' = "panic"
                  /\ state' = <<st>>
                  /\ vectors' = <<>>
             ELSE \E bytes \in XofVectorReads(st.dbLength) :
                  /\ gfPc' = "queried"
                  /\ state' = <<st>>
                  /\ vectors' = secretSharing(st, numServers,
                                    RandomVectorXOF(st.dbLength, bytes))
    /\ UNCHANGED <<rebalanced, db>>
    /\ UNCHANGED notGF

\* s_k.Answer(queries[k]) of the next server, honestly computed
GFAnswer ==
    /\ gfPc = "queried"
    /\ LET k == Len(answers) + 1 IN
       /\ answers' = Append(answers, answerSingleBit(vectors[k], db[rebalanced]))
       /\ gfPc' = IF k = Len(vectors) THEN "answered" ELSE "queried"
    /\ UNCHANGED <<rebalanced, state, db, qIndex, qServers, vectors, tamper, result>>
    /\ UNCHANGED notGF

\* one server adds a nonzero delta to one element of its answer
GFTamper ==
    /\ gfPc = "answered"
    /\ tamper = <<>>
    /\ \E s \in 1..Len(answers), delta \in Deltas :
       \E pos \in 1..Len(answers[s]) :
          /\ answers' = [answers EXCEPT ![s][pos] = Add(@, delta)]
          /\ tamper' = <<[server |-> s, pos |-> pos, delta |-> delta]>>
    /\ UNCHANGED <<gfPc, rebalanced, state, db, qIndex, qServers, vectors, result>>
    /\ UNCHANGED notGF

\* c.Reconstruct(answers)
GFReconstruct ==
    /\ gfPc = "answered"
    /\ result' = Reconstruct(rebalanced, state[1], answers)
    /\ gfPc' = IF result'.err = "panic" THEN "panic" ELSE "done"
    /\ UNCHANGED <<rebalanced, state, db, qIndex, qServers, vectors, answers, tamper>>
    /\ UNCHANGED notGF

GFNext == GFQuery \/ GFAnswer \/ GFTamper \/ GFReconstruct

SpecGF == GFInit /\ [][GFNext]_vars

(***************************************************************************)
(* Claims about the single-bit scheme                                      *)
(***************************************************************************)
\* the preconditions of Query: i in [0, N) and at least two servers
ValidQueryInputs(index, numServers) ==
    index \in 0..(DBLength - 1) /\ numServers >= 2

StoredBit == db[rebalanced].Entries[qIndex + 1]

TargetSum == ReconstructSum(answers, ReconstructSelect(rebalanced, state[1]) + 1)

\* C1: with honest servers, for every database, every index in [0, N), every
\* numServers >= 2 and every XOF output, in both layouts, Reconstruct returns
\* no error and the bit D[i].
C1_HonestReconstructsBit ==
    (gfPc = "done" /\ tamper = <<>> /\ ValidQueryInputs(qIndex, qServers))
        => (result.err = "nil" /\ result.val = <<StoredBit>>)

\* C2: the vector handed to a server does not reveal the index: whatever a
\* server receives for index i, it could have received for any other index
\* i' (under some other output of the XOF).
C2_QueryHidesIndex ==
    (gfPc = "queried" /\ ValidQueryInputs(qIndex, qServers))
        => \A k \in 1..qServers : \A other \in 0..(DBLength - 1) :
              \E alphaBytes \in XofBlocks :
                 LET st == QueryState(rebalanced, other, RandomXOF(alphaBytes)) IN
                 \E bytes \in XofVectorReadsAll(st.dbLength) :
                    secretSharing(st, qServers,
                        RandomVectorXOF(st.dbLength, bytes))[k] = vectors[k]

\* C3: when one server has added a nonzero delta other than alpha to one
\* element of its answer, at the target position or at any other, Reconstruct
\* returns the reject error and no bit.
C3_TamperRejected ==
    (gfPc = "done" /\ tamper # <<>> /\ ~Equal(tamper[1].delta, state[1].alpha))
        => (result.val = <<>> /\ result.err = "REJECT!")

\* C3 witness: in the matrix layout a server changed the element of a row
\* that is not the target row, and the reconstruction was rejected.
C3_Witness ==
    /\ gfPc = "done" /\ tamper # <<>> /\ rebalanced
    /\ ValidQueryInputs(qIndex, qServers)
    /\ tamper[1].pos # state[1].iy + 1
    /\ ~Equal(tamper[1].delta, state[1].alpha)
    /\ result.err = "REJECT!"

\* C4: reconstruction is tri-valued and all-or-nothing: a value never comes
\* with an error, bit 1 is returned only when the combined answer at the
\* target row is alpha and bit 0 only when it is zero, and with honest
\* servers bit 1 is returned only for a stored 1 and bit 0 only for a
\* stored 0.
C4_TriValued ==
    (gfPc = "done" /\ ValidQueryInputs(qIndex, qServers))
        => /\ result.val \in {<<>>, <<Zero>>, <<One>>}
           /\ (result.val = <<>>) <=> (result.err # "nil")
           /\ result.val = <<One>> => Equal(TargetSum, state[1].alpha)
           /\ result.val = <<Zero>> => Equal(TargetSum, Zero)
           /\ result.val = <<>> => result.err = "REJECT!"
           /\ (tamper = <<>> /\ result.val = <<One>>) => StoredBit = One
           /\ (tamper = <<>> /\ result.val = <<Zero>>) => StoredBit = Zero

\* C8: Query rejects every input that violates its preconditions and builds
\* no query for it: an index outside [0, N) whatever numServers is, and a
\* server count below 2 whatever the index is.
C8_InvalidInputsRejected ==
    (gfPc # "idle" /\ ~ValidQueryInputs(qIndex, qServers))
        => /\ gfPc = "panic" /\ vectors = <<>>
           /\ invalidQueryInputs(qIndex, qServers)
           /\ invalidQueryInputsIT(qIndex, qServers)
           /\ ITVectorQueryPanics(qIndex, qServers)


\* C15: the shares secretSharing returns add up, position by position, to
\* the plaintext vector (alpha at position ix, zero elsewhere), and each share
\* has as many elements as the database has columns.
C15_SharesSumToPlaintext ==
    gfPc \in {"queried", "answered", "done"} =>
        /\ Len(vectors) = qServers
        /\ \A k \in 1..Len(vectors) : Len(vectors[k]) = NumColumnsOf(rebalanced)
        /\ \A i \in 1..NumColumnsOf(rebalanced) :
              SumElements([k \in 1..Len(vectors) |-> vectors[k][i]])
                = IF i - 1 = state[1].ix THEN state[1].alpha ELSE Zero

\* three shares of a query for column 1 with alpha = One and nonzero random
\* elements
C15_Witness ==
    /\ gfPc = "queried" /\ Len(vectors) = 3
    /\ state[1].ix = 1 /\ state[1].alpha = One
    /\ vectors[1][2] # Zero /\ vectors[1][1] # vectors[1][2]

\* C19: the alpha that Query stores in the client state is never the zero
\* element.
C19_AlphaNonZero ==
    state # <<>> => state[1].alpha # Zero

(***************************************************************************)
(* The multi-bit answer engine: server.answer and its workers              *)
(***************************************************************************)
MaxCores == 3
MaxRows == 3
MaxColumns == 3
MaxBlockSize == 2
MaxCells == 4

\* s[lo:hi] of Go
Slice(s, lo, hi) == SubSeq(s, lo + 1, hi)

\* utils.DivideAndRoundUpToMultiple: ceil(dividend / divisor), rounded up to
\* a multiple of multiple
DivideAndRoundUpToMultiple(dividend, divisor, multiple) ==
    CeilDiv(CeilDiv(dividend, divisor), multiple) * multiple

\* computeChunkIndices without the cut at max
computeChunkIndicesUncut(ind, step, multiplier, max) ==
    <<step, ind * multiplier, (ind + step) * multiplier>>

\* computeChunkIndices: <<step, begin, end>>
computeChunkIndices(ind, step, multiplier, max) ==
    LET s == IF ind + step > max THEN max - ind ELSE step
    IN  <<s, ind * multiplier, (ind + s) * multiplier>>

\* the chunks of the loop
\*   for j := 0; j < max; j += step { step, begin, end = computeChunkIndices(..) }
\* as records [j, step, begin, end]
RECURSIVE Chunks(_, _, _, _)
Chunks(j, step, multiplier, max) ==
    IF j >= max \/ step <= 0 THEN <<>>
    ELSE LET c == computeChunkIndices(j, step, multiplier, max)
         IN  <<[j |-> j, step |-> c[1], begin |-> c[2], end |-> c[3]]>>
                \o Chunks(j + c[1], c[1], multiplier, max)

\* the tag of computeMessageAndTag read one query element too early
RECURSIVE MessageAndTagLoopTagAtBase(_, _, _, _, _, _)
MessageAndTagLoopTagAtBase(elements, blockLen, q, k, sum, sumTag) ==
    IF k >= (Len(elements) \div blockLen) * blockLen THEN Append(sum, sumTag)
    ELSE LET j == k \div blockLen
             b == k % blockLen
             el == elements[j * blockLen + b + 1]
         IN  IF IsZero(el)
             THEN MessageAndTagLoopTagAtBase(elements, blockLen, q, k + 1, sum, sumTag)
             ELSE LET prod == Mul(el, q[j * (blockLen + 1) + 1])
                      prodTag == Mul(el, q[j * (blockLen + 1) + b + 1])
                  IN  MessageAndTagLoopTagAtBase(elements, blockLen, q, k + 1,
                          [sum EXCEPT ![b + 1] = Add(sum[b + 1], prod)],
                          Add(sumTag, prodTag))

computeMessageAndTagTagAtBase(elements, blockLen, q) ==
    MessageAndTagLoopTagAtBase(elements, blockLen, q, 0,
                               [b \in 1..blockLen |-> Zero], Zero)

\* the two nested loops of computeMessageAndTag, k = j*blockLen + b
RECURSIVE MessageAndTagLoop(_, _, _, _, _, _)
MessageAndTagLoop(elements, blockLen, q, k, sum, sumTag) ==
    IF k >= (Len(elements) \div blockLen) * blockLen THEN Append(sum, sumTag)
    ELSE LET j == k \div blockLen
             b == k % blockLen
             el == elements[j * blockLen + b + 1]
         IN  IF IsZero(el)
             THEN MessageAndTagLoop(elements, blockLen, q, k + 1, sum, sumTag)
             ELSE LET prod == Mul(el, q[j * (blockLen + 1) + 1])
                      prodTag == Mul(el, q[j * (blockLen + 1) + 1 + b + 1])
                  IN  MessageAndTagLoop(elements, blockLen, q, k + 1,
                          [sum EXCEPT ![b + 1] = Add(sum[b + 1], prod)],
                          Add(sumTag, prodTag))

\* computeMessageAndTag multiplies db entries with the elements from the
\* client query and computes a tag over each block
computeMessageAndTag(elements, blockLen, q) ==
    MessageAndTagLoop(elements, blockLen, q, 0, [b \in 1..blockLen |-> Zero], Zero)

\* what processRows copies into its output slice
processRows(rows, blockLen, numColumns, q) ==
    LET numElementsInRow == blockLen * numColumns
    IN  Concat([i \in 1..(Len(rows) \div numElementsInRow) |->
                  computeMessageAndTag(
                      Slice(rows, (i - 1) * numElementsInRow, i * numElementsInRow),
                      blockLen, q)])

\* what processColumns sends on the channel
processColumns(chunk, blockLen, q) == computeMessageAndTag(chunk, blockLen, q)

\* combineColumnResults over the replies in the order they arrived
\* combineColumnResults that keeps only the reply that arrived last
combineColumnResultsLastOnly(nWrk, resLen, workerReplies) ==
    IF nWrk = 0 THEN [i \in 1..resLen |-> Zero]
    ELSE [i \in 1..resLen |->
             IF i <= Len(workerReplies[nWrk]) THEN workerReplies[nWrk][i] ELSE Zero]

RECURSIVE combineColumnResults(_, _, _)
combineColumnResults(nWrk, resLen, workerReplies) ==
    IF nWrk = 0 THEN [i \in 1..resLen |-> Zero]
    ELSE LET product == combineColumnResults(nWrk - 1, resLen, workerReplies)
             reply == workerReplies[nWrk]
         IN  [i \in 1..resLen |->
                 IF i <= Len(reply) THEN Add(product[i], reply[i]) ELSE product[i]]

\* copy(dst[lo:hi], src)
CopyInto(dst, lo, hi, src) ==
    [k \in 1..Len(dst) |->
        IF k > lo /\ k <= hi /\ k - lo <= Len(src) THEN src[k - lo] ELSE dst[k]]

\* the workers answer starts for the database d on numCores cores
AnswerChunks(d, numCores) ==
    IF d.NumRows = 1
    THEN Chunks(0, DivideAndRoundUpToMultiple(d.NumColumns, numCores, 1),
                d.BlockSize, d.NumColumns)
    ELSE Chunks(0, DivideAndRoundUpToMultiple(d.NumRows, numCores, 1),
                d.BlockSize, d.NumRows)

\* the inputs: geometries, database entries and queries
AnGeometries ==
    {g \in (1..MaxRows) \X (1..MaxColumns) \X (0..MaxBlockSize) :
        g[1] * g[2] * (IF g[3] = 0 THEN 1 ELSE g[3]) <= MaxCells}

AnElement1 == [low |-> {63, 0}, high |-> {0, 5, 63}]

AnElement2 == [low |-> {1, 2, 3, 40}, high |-> {7, 8, 62}]

AnEntries == {Zero, One, AnElement1}

AnQueryPool == <<Gen, AnElement2, One, AnElement1, Zero>>

AnQueries(len) ==
    {[k \in 1..len |-> AnQueryPool[((s + k * t) % 5) + 1]] : s \in {0, 3}, t \in 1..2}

notAN == <<gfVars, pirVars, rqVars, mkVars, pfVars, stVars, wkVars, muVars, lfVars, mbVars, xsVars, tbVars, rbVars, ivVars, ecVars, clVars>>

ANInit ==
    /\ gfIdle /\ pirIdle /\ rqIdle /\ mkIdle /\ pfIdle /\ stIdle /\ wkIdle /\ muIdle /\ lfIdle /\ mbIdle /\ xsIdle /\ tbIdle /\ rbIdle /\ ivIdle /\ ecIdle /\ clIdle
    /\ anPc = "ready"
    /\ \E g \in AnGeometries :
          /\ \E e \in [1..(g[1] * g[2] * (IF g[3] = 0 THEN 1 ELSE g[3])) -> AnEntries] :
                anDb = [Entries |-> e, NumRows |-> g[1], NumColumns |-> g[2],
                        BlockSize |-> g[3]]
          /\ anQuery \in AnQueries(g[2] * (g[3] + 1))
    /\ anCores \in 1..MaxCores
    /\ anWork = {} /\ anChan = <<>> /\ anM = <<>> /\ anOut = <<>>
    /\ anTaken = <<>> /\ anProduct = <<>>

\* answer, BlockSize = SingleBitBlockLength: the simplified scheme
ANAnswerSingleBit ==
    /\ anPc = "ready"
    /\ anDb.BlockSize = SingleBitBlockLength
    /\ anOut' = answerSingleBit(anQuery, anDb)
    /\ anPc' = "done"
    /\ UNCHANGED <<anDb, anQuery, anCores, anWork, anChan, anTaken, anProduct, anM>>
    /\ UNCHANGED notAN

\* answer up to the point where its goroutines are started
ANStart ==
    /\ anPc = "ready"
    /\ anDb.BlockSize # SingleBitBlockLength
    /\ anWork' = {AnswerChunks(anDb, anCores)[k] :
                     k \in 1..Len(AnswerChunks(anDb, anCores))}
    /\ anM' = IF anDb.NumRows = 1 THEN <<>>
              ELSE [k \in 1..(anDb.NumRows * (anDb.BlockSize + 1)) |-> Zero]
    /\ anProduct' = IF anDb.NumRows = 1
                    THEN combineColumnResults(0, anDb.BlockSize + 1, <<>>)
                    ELSE <<>>
    /\ anPc' = "running"
    /\ UNCHANGED <<anDb, anQuery, anCores, anChan, anTaken, anOut>>
    /\ UNCHANGED notAN

\* one goroutine runs: processColumns (vector) or processRows (matrix)
ANWorker ==
    /\ anPc = "running"
    /\ \E w \in anWork :
          /\ anWork' = anWork \ {w}
          /\ IF anDb.NumRows = 1
             THEN /\ Len(anChan) < anCores * (anDb.BlockSize + 1)
                  /\ anChan' = Append(anChan,
                       processColumns(Slice(anDb.Entries, w.begin, w.end),
                           anDb.BlockSize,
                           Slice(anQuery, w.j * (anDb.BlockSize + 1),
                                 (w.j + w.step) * (anDb.BlockSize + 1))))
                  /\ UNCHANGED anM
             ELSE /\ anM' = CopyInto(anM, w.j * (anDb.BlockSize + 1),
                                (w.j + w.step) * (anDb.BlockSize + 1),
                                processRows(Slice(anDb.Entries,
                                                  w.begin * anDb.NumColumns,
                                                  w.end * anDb.NumColumns),
                                            anDb.BlockSize, anDb.NumColumns, anQuery))
                  /\ UNCHANGED anChan
    /\ UNCHANGED <<anPc, anDb, anQuery, anCores, anTaken, anProduct, anOut>>
    /\ UNCHANGED notAN

\* combineColumnResults, one iteration of its loop: reply := <-workerReplies
\* and the reply is added to product
ANReceive ==
    /\ anPc = "running"
    /\ anDb.NumRows = 1
    /\ Len(anTaken) < Len(AnswerChunks(anDb, anCores))
    /\ anChan # <<>>
    /\ anTaken' = Append(anTaken, Head(anChan))
    /\ anChan' = Tail(anChan)
    /\ anProduct' = combineColumnResults(Len(anTaken) + 1, anDb.BlockSize + 1,
                                         Append(anTaken, Head(anChan)))
    /\ UNCHANGED <<anPc, anDb, anQuery, anCores, anWork, anM, anOut>>
    /\ UNCHANGED notAN

\* answer returns: combineColumnResults has received numWorkers replies and
\* the channel is closed (vector), or wg.Wait returns (matrix)
ANReturn ==
    /\ anPc = "running"
    /\ IF anDb.NumRows = 1
       THEN /\ Len(anTaken) = Len(AnswerChunks(anDb, anCores))
            /\ anOut' = anProduct
       ELSE /\ anWork = {}
            /\ anOut' = anM
    /\ anPc' = "done"
    /\ UNCHANGED <<anDb, anQuery, anCores, anWork, anChan, anTaken, anProduct, anM>>
    /\ UNCHANGED notAN

ANNext == ANAnswerSingleBit \/ ANStart \/ ANWorker \/ ANReceive \/ ANReturn

SpecAnswer == ANInit /\ [][ANNext]_vars

\* the element of D at row r, column c, position b (all from 0)
AnD(r, c, b) == anDb.Entries[(r * anDb.NumColumns + c) * anDb.BlockSize + b + 1]

\* m_r[b] = sum over c of D[r,c,b] * q[c*(blockSize+1)]
AnMessage(r, b) ==
    SumElements([c \in 1..anDb.NumColumns |->
        Mul(AnD(r, c - 1, b), anQuery[(c - 1) * (anDb.BlockSize + 1) + 1])])

\* t_r = sum over c and b of D[r,c,b] * q[c*(blockSize+1)+1+b]
AnTag(r) ==
    SumElements([n \in 1..(anDb.NumColumns * anDb.BlockSize) |->
        LET c == (n - 1) \div anDb.BlockSize
            b == (n - 1) % anDb.BlockSize
        IN  Mul(AnD(r, c, b), anQuery[c * (anDb.BlockSize + 1) + 1 + b + 1])])

AnExpected ==
    [k \in 1..(anDb.NumRows * (anDb.BlockSize + 1)) |->
        LET r == (k - 1) \div (anDb.BlockSize + 1)
            p == (k - 1) % (anDb.BlockSize + 1)
        IN  IF p < anDb.BlockSize THEN AnMessage(r, p) ELSE AnTag(r)]

\* C5: for blockSize >= 1 the answer is, row after row, the blockSize message
\* elements m_r[b] followed by the tag t_r, rows*(blockSize+1) elements in
\* all, with every product taken (so skipping zero entries changes nothing).
C5_AnswerIsMessageAndTag ==
    (anPc = "done" /\ anDb.BlockSize >= 1) =>
        /\ Len(anOut) = anDb.NumRows * (anDb.BlockSize + 1)
        /\ anOut = AnExpected

\* an answer of several workers with an uneven tail, over a database with
\* zero and non-zero entries, whose tag is not zero
C5_Witness ==
    /\ anPc = "done" /\ anDb.BlockSize >= 1
    /\ anCores = 2 /\ anDb.NumRows * anDb.NumColumns = 3
    /\ \E k \in DOMAIN anDb.Entries : anDb.Entries[k] = Zero
    /\ \E k \in DOMAIN anDb.Entries : anDb.Entries[k] = AnElement1
    /\ anOut[Len(anOut)] # Zero


\* C16: in the column path (rows = 1) the reduced result equals
\* computeMessageAndTag applied to the whole row with the whole query, for
\* every worker count and every order in which the workers deliver.
C16_ColumnPathIndependentOfWorkers ==
    (anPc = "done" /\ anDb.NumRows = 1 /\ anDb.BlockSize >= 1) =>
        anOut = computeMessageAndTag(anDb.Entries, anDb.BlockSize, anQuery)

\* three column workers whose replies arrived with the last column first
C16_Witness ==
    /\ anPc = "done" /\ anDb.NumRows = 1 /\ anDb.BlockSize = 1
    /\ Len(anTaken) = 3 /\ anChan = <<>>
    /\ anTaken[1] = processColumns(Slice(anDb.Entries, 2, 3), 1, Slice(anQuery, 4, 6))
    /\ anTaken[1] # anTaken[2] /\ anTaken[1] # anTaken[3] /\ anTaken[2] # anTaken[3]
    /\ anOut[2] # Zero

(***************************************************************************)
(* Classical PIR: server.answerPIR with its workers, and the two-server    *)
(* client of retrieveBlocksBytes. A byte is a number in 0..255.            *)
(***************************************************************************)
MaxPirColumns == 17
MaxPirRows == 3
MaxPirBlockSize == 2

\* a ^ b on bytes
ByteXor(a, b) == LimbVal(LimbXor(LimbOf(a), LimbOf(b)))

\* fastxor.Bytes(dst, dst, b): the first min(len) bytes of dst are XORed with b
XorBytes(dst, b) ==
    [k \in 1..Len(dst) |-> IF k <= Len(b) THEN ByteXor(dst[k], b[k]) ELSE dst[k]]

\* xorValues with the bits of a query byte taken from the top
RECURSIVE XorValuesLoopMsbFirst(_, _, _, _, _)
XorValuesLoopMsbFirst(entries, bl, q, j, sum) ==
    IF j >= Len(entries) \div bl THEN sum
    ELSE XorValuesLoopMsbFirst(entries, bl, q, j + 1,
             IF (q[(j \div 8) + 1] \div Pow2(7 - (j % 8))) % 2 = 1
             THEN XorBytes(sum, Slice(entries, j * bl, (j + 1) * bl))
             ELSE sum)

xorValuesMsbFirst(entries, bl, q) ==
    XorValuesLoopMsbFirst(entries, bl, q, 0, [k \in 1..bl |-> 0])

\* the loop of xorValues
RECURSIVE XorValuesLoop(_, _, _, _, _)
XorValuesLoop(entries, bl, q, j, sum) ==
    IF j >= Len(entries) \div bl THEN sum
    ELSE XorValuesLoop(entries, bl, q, j + 1,
             IF (q[(j \div 8) + 1] \div Pow2(j % 8)) % 2 = 1
             THEN XorBytes(sum, Slice(entries, j * bl, (j + 1) * bl))
             ELSE sum)

\* XORs entries and q block by block of size bl
xorValues(entries, bl, q) == XorValuesLoop(entries, bl, q, 0, [k \in 1..bl |-> 0])

\* XORs columns in the same row: what is sent on the channel
xorColumns(columns, blockLen, q) == xorValues(columns, blockLen, q)

\* XORs all the columns in a row, row by row: what is copied into output
xorRows(rows, blockLen, numColumns, q) ==
    LET numElementsInRow == blockLen * numColumns
    IN  Concat([i \in 1..(Len(rows) \div numElementsInRow) |->
                  xorValues(Slice(rows, (i - 1) * numElementsInRow,
                                  i * numElementsInRow), blockLen, q)])

\* combineColumnXORs over the replies in the order they arrived
RECURSIVE combineColumnXORs(_, _, _)
combineColumnXORs(nWrk, blockLen, workerReplies) ==
    IF nWrk = 0 THEN [k \in 1..blockLen |-> 0]
    ELSE XorBytes(combineColumnXORs(nWrk - 1, blockLen, workerReplies),
                  workerReplies[nWrk])

\* the workers answerPIR starts for the database d on numCores cores
AnswerPIRChunks(d, numCores) ==
    IF d.NumRows = 1
    THEN Chunks(0, DivideAndRoundUpToMultiple(d.NumColumns, numCores, 8),
                d.BlockSize, d.NumColumns)
    ELSE Chunks(0, DivideAndRoundUpToMultiple(d.NumRows, numCores, 1),
                d.BlockSize, d.NumRows)

\* the slice of q handed to the column worker of chunk w
ColumnQuery(q, w) == Slice(q, w.j \div 8, CeilDiv(w.j + w.step, 8))

\* client.PIR.QueryBytes(index, 2): a random bit vector for the first server
\* and the same vector with the bit of the column flipped for the second
PirQueryBytes(index, rnd, d) ==
    LET iy == index % d.NumColumns
    IN  <<rnd, [rnd EXCEPT ![(iy \div 8) + 1] = ByteXor(@, Pow2(iy % 8))]>>

\* client.PIR.ReconstructBytes: the XOR of the answers, at the row of the index
PirReconstructBytes(ans, index, d) ==
    LET ix == index \div d.NumColumns
    IN  Slice(XorBytes(ans[1], ans[2]), ix * d.BlockSize, (ix + 1) * d.BlockSize)

\* the inputs
PirGeometries ==
    {<<1, c, b>> : c \in {1, 7, 8, 9, 16, MaxPirColumns}, b \in 1..MaxPirBlockSize}
      \cup {<<r, c, b>> : r \in 2..MaxPirRows, c \in 2..3, b \in 1..MaxPirBlockSize}

PirEntries(n, seed) == [k \in 1..n |-> (k * 37 * seed + 11 * seed) % 256]

PirRandomBytes(n) == {[k \in 1..n |-> pat[(k % 2) + 1]] : pat \in [1..2 -> {0, 255, 165}]}

notPIR == <<gfVars, anVars, rqVars, mkVars, pfVars, stVars, wkVars, muVars, lfVars, mbVars, xsVars, tbVars, rbVars, ivVars, ecVars, clVars>>

PIRInit ==
    /\ gfIdle /\ anIdle /\ rqIdle /\ mkIdle /\ pfIdle /\ stIdle /\ wkIdle /\ muIdle /\ lfIdle /\ mbIdle /\ xsIdle /\ tbIdle /\ rbIdle /\ ivIdle /\ ecIdle /\ clIdle
    /\ pirPc = "idle"
    /\ \E g \in PirGeometries, seed \in 1..2 :
          pirDb = [Entries |-> PirEntries(g[1] * g[2] * g[3], seed),
                   NumRows |-> g[1], NumColumns |-> g[2], BlockSize |-> g[3]]
    /\ pirCores \in 1..MaxCores
    /\ pirIndex = 0 /\ pirQueries = <<>> /\ pirWork = {} /\ pirChan = <<>>
    /\ pirTaken = <<>> /\ pirSum = <<>>
    /\ pirM = <<>> /\ pirAnswers = <<>> /\ pirBlock = <<>>

\* c.QueryBytes(i, 2)
PIRQuery ==
    /\ pirPc = "idle"
    /\ \E index \in 0..(pirDb.NumRows * pirDb.NumColumns - 1),
          rnd \in PirRandomBytes(CeilDiv(pirDb.NumColumns, 8)) :
          /\ pirIndex' = index
          /\ pirQueries' = PirQueryBytes(index, rnd, pirDb)
    /\ pirPc' = "queried"
    /\ UNCHANGED <<pirDb, pirCores, pirWork, pirChan, pirTaken, pirSum, pirM, pirAnswers, pirBlock>>
    /\ UNCHANGED notPIR

\* answerPIR of the next server, up to the point where its goroutines run
PIRStart ==
    /\ pirPc = "queried"
    /\ pirWork' = {AnswerPIRChunks(pirDb, pirCores)[k] :
                      k \in 1..Len(AnswerPIRChunks(pirDb, pirCores))}
    /\ pirM' = [k \in 1..(pirDb.NumRows * pirDb.BlockSize) |-> 0]
    /\ pirChan' = <<>>
    /\ pirTaken' = <<>>
    /\ pirSum' = IF pirDb.NumRows = 1
                 THEN combineColumnXORs(0, pirDb.BlockSize, <<>>)
                 ELSE <<>>
    /\ pirPc' = "running"
    /\ UNCHANGED <<pirDb, pirIndex, pirCores, pirQueries, pirAnswers, pirBlock>>
    /\ UNCHANGED notPIR

\* one goroutine runs: xorColumns (vector) or xorRows (matrix)
PIRWorker ==
    /\ pirPc = "running"
    /\ \E w \in pirWork :
          LET q == pirQueries[Len(pirAnswers) + 1]
          IN  /\ pirWork' = pirWork \ {w}
              /\ IF pirDb.NumRows = 1
                 THEN /\ Len(pirChan) < pirCores * pirDb.BlockSize
                      /\ pirChan' = Append(pirChan,
                            xorColumns(Slice(pirDb.Entries, w.begin, w.end),
                                       pirDb.BlockSize, ColumnQuery(q, w)))
                      /\ UNCHANGED pirM
                 ELSE /\ pirM' = CopyInto(pirM, w.begin, w.end,
                            xorRows(Slice(pirDb.Entries, w.begin * pirDb.NumColumns,
                                          w.end * pirDb.NumColumns),
                                    pirDb.BlockSize, pirDb.NumColumns, q))
                      /\ UNCHANGED pirChan
    /\ UNCHANGED <<pirPc, pirDb, pirIndex, pirCores, pirQueries, pirTaken, pirSum, pirAnswers, pirBlock>>
    /\ UNCHANGED notPIR

\* combineColumnXORs, one iteration of its loop: reply := <-workerReplies and
\* the reply is XORed into sum
PIRReceive ==
    /\ pirPc = "running"
    /\ pirDb.NumRows = 1
    /\ Len(pirTaken) < Len(AnswerPIRChunks(pirDb, pirCores))
    /\ pirChan # <<>>
    /\ pirTaken' = Append(pirTaken, Head(pirChan))
    /\ pirChan' = Tail(pirChan)
    /\ pirSum' = combineColumnXORs(Len(pirTaken) + 1, pirDb.BlockSize,
                                   Append(pirTaken, Head(pirChan)))
    /\ UNCHANGED <<pirPc, pirDb, pirIndex, pirCores, pirQueries, pirWork, pirM,
                   pirAnswers, pirBlock>>
    /\ UNCHANGED notPIR

\* answerPIR returns: combineColumnXORs has received numWorkers replies and
\* the channel is closed (vector), or wg.Wait returns (matrix)
PIRReturn ==
    /\ pirPc = "running"
    /\ IF pirDb.NumRows = 1
       THEN /\ Len(pirTaken) = Len(AnswerPIRChunks(pirDb, pirCores))
            /\ pirAnswers' = Append(pirAnswers, pirSum)
       ELSE /\ pirWork = {}
            /\ pirAnswers' = Append(pirAnswers, pirM)
    /\ pirPc' = IF Len(pirAnswers) = 1 THEN "answered" ELSE "queried"
    /\ UNCHANGED <<pirDb, pirIndex, pirCores, pirQueries, pirWork, pirChan, pirTaken,
                   pirSum, pirM, pirBlock>>
    /\ UNCHANGED notPIR

\* c.ReconstructBytes(answers)
PIRReconstruct ==
    /\ pirPc = "answered"
    /\ pirBlock' = PirReconstructBytes(pirAnswers, pirIndex, pirDb)
    /\ pirPc' = "done"
    /\ UNCHANGED <<pirDb, pirIndex, pirCores, pirQueries, pirWork, pirChan, pirTaken,
                   pirSum, pirM, pirAnswers>>
    /\ UNCHANGED notPIR

PIRNext == PIRQuery \/ PIRStart \/ PIRWorker \/ PIRReceive \/ PIRReturn \/ PIRReconstruct

SpecPIR == PIRInit /\ [][PIRNext]_vars

\* bit c of the bit-packed query q: bit c mod 8 of byte c div 8
PirQueryBit(q, c) == (q[(c \div 8) + 1] \div Pow2(c % 8)) % 2 = 1

\* byte p of the block D[r, c] (all from 0)
PirD(r, c, p) == pirDb.Entries[(r * pirDb.NumColumns + c) * pirDb.BlockSize + p + 1]

\* byte p of the XOR of the blocks D[r, c] over the columns selected by q
PirSelectedXor(q, r, p) ==
    LimbVal({bit \in 0..7 :
        Cardinality({c \in 0..(pirDb.NumColumns - 1) :
            PirQueryBit(q, c) /\ bit \in LimbOf(PirD(r, c, p))}) % 2 = 1})

PirExpected(q) ==
    [k \in 1..(pirDb.NumRows * pirDb.BlockSize) |->
        PirSelectedXor(q, (k - 1) \div pirDb.BlockSize, (k - 1) % pirDb.BlockSize)]

\* C6: every answer of answerPIR is, row by row, the XOR of the blocks of
\* exactly the columns whose bit is set in the query, for every geometry and
\* worker count, and the block reconstructed from two honest servers is the
\* stored block.
C6_AnswerPIRIsSelectedXor ==
    /\ \A k \in 1..Len(pirAnswers) : pirAnswers[k] = PirExpected(pirQueries[k])
    /\ pirPc = "done" =>
          pirBlock = Slice(pirDb.Entries, pirIndex * pirDb.BlockSize,
                           (pirIndex + 1) * pirDb.BlockSize)

\* a vector database answered by three workers, the last one on a tail that
\* starts inside the third query byte, for an index in that tail
C6_Witness ==
    /\ pirPc = "done"
    /\ pirDb.NumRows = 1 /\ pirDb.NumColumns > 16 /\ pirCores = 3
    /\ pirIndex >= 16
    /\ pirQueries[1][1] = 165
    /\ pirBlock # <<0, 0>> /\ Len(pirBlock) = 2


(***************************************************************************)
(* Client orchestration: localClient.runQueries                            *)
(***************************************************************************)
MaxConnections == 3

\* the orders in which n connections can be yielded, as sequences
ConnOrders(n) ==
    {f \in [1..n -> 1..n] : \A a, b \in 1..n : f[a] = f[b] => a = b}

\* queryServer(ctx, conn, opts, query): the answer of the server behind conn
\* to query
queryServer(conn, query) == [server |-> conn, query |-> query]

notRQ == <<gfVars, anVars, pirVars, mkVars, pfVars, stVars, wkVars, muVars, lfVars, mbVars, xsVars, tbVars, rbVars, ivVars, ecVars, clVars>>

\* a client connected to 2..MaxConnections servers, holding one query for
\* each; the range over the map lc.connections yields them in some order
RQInit ==
    /\ gfIdle /\ anIdle /\ pirIdle /\ mkIdle /\ pfIdle /\ stIdle /\ wkIdle /\ muIdle /\ lfIdle /\ mbIdle /\ xsIdle /\ tbIdle /\ rbIdle /\ ivIdle /\ ecIdle /\ clIdle
    /\ rqPc = "spawning"
    /\ \E n \in 2..MaxConnections :
          /\ rqQueries \in {[k \in 1..n |-> <<base + k>>] : base \in {0, 100}}
          /\ rqConnOrder \in ConnOrders(n)
    /\ rqSpawned = 0 /\ rqWorker = <<>> /\ rqResCh = <<>> /\ rqWg = 0 /\ rqOut = <<>>

\* one iteration of the loop: wg.Add(1); go func(j, conn); j++
RQSpawn ==
    /\ rqPc = "spawning"
    /\ rqSpawned < Len(rqConnOrder)
    /\ rqWg' = rqWg + 1
    /\ rqWorker' = Append(rqWorker, "running")
    /\ rqSpawned' = rqSpawned + 1
    /\ UNCHANGED <<rqPc, rqQueries, rqConnOrder, rqResCh, rqOut>>
    /\ UNCHANGED notRQ

\* the loop ends: the client reaches wg.Wait()
RQLoopEnd ==
    /\ rqPc = "spawning"
    /\ rqSpawned = Len(rqConnOrder)
    /\ rqPc' = "waiting"
    /\ UNCHANGED <<rqQueries, rqConnOrder, rqSpawned, rqWorker, rqResCh, rqWg, rqOut>>
    /\ UNCHANGED notRQ

\* goroutine j: resCh <- queryServer(subCtx, conn, lc.callOptions, queries[j])
RQSend ==
    /\ \E j \in 1..Len(rqWorker) :
          /\ rqWorker[j] = "running"
          /\ rqResCh' = Append(rqResCh, queryServer(rqConnOrder[j], rqQueries[j]))
          /\ rqWorker' = [rqWorker EXCEPT ![j] = "sent"]
    /\ UNCHANGED <<rqPc, rqQueries, rqConnOrder, rqSpawned, rqWg, rqOut>>
    /\ UNCHANGED notRQ

\* goroutine j: wg.Done()
RQDone ==
    /\ \E j \in 1..Len(rqWorker) :
          /\ rqWorker[j] = "sent"
          /\ rqWorker' = [rqWorker EXCEPT ![j] = "done"]
    /\ rqWg' = rqWg - 1
    /\ UNCHANGED <<rqPc, rqQueries, rqConnOrder, rqSpawned, rqResCh, rqOut>>
    /\ UNCHANGED notRQ

\* wg.Wait() returns; close(resCh); the channel is drained into q, returned
RQCollect ==
    /\ rqPc = "waiting"
    /\ rqWg = 0
    /\ rqOut' = rqResCh
    /\ rqResCh' = <<>>
    /\ rqPc' = "done"
    /\ UNCHANGED <<rqQueries, rqConnOrder, rqSpawned, rqWorker, rqWg>>
    /\ UNCHANGED notRQ

RQNext == RQSpawn \/ RQLoopEnd \/ RQSend \/ RQDone \/ RQCollect

SpecRun == RQInit /\ [][RQNext]_vars

\* C7: runQueries returns the answers in query order: element k of the
\* returned list is the answer of the server that was sent queries[k],
\* whatever the order of the replies and of the iteration over the connections.
C7_AnswersInQueryOrder ==
    rqPc = "done" =>
        /\ Len(rqOut) = Len(rqQueries)
        /\ \A k \in 1..Len(rqQueries) :
              rqOut[k] = queryServer(rqConnOrder[k], rqQueries[k])


(***************************************************************************)
(* The Merkle layer. A digest is modelled by an injective encoding of the  *)
(* hashed bytes (their length, then the bytes): two digests are equal      *)
(* exactly when the hashed byte strings are.                               *)
(***************************************************************************)
MaxBlocks == 3

\* binary.LittleEndian.PutUint32 / Uint32 (numbers below 2^31)
LittleEndianPutUint32(n) == [k \in 1..4 |-> (n \div Pow2(8 * (k - 1))) % 256]

LittleEndianUint32(b) == b[1] + 256 * b[2] + 65536 * b[3] + 16777216 * b[4]

\* binary.LittleEndian.PutUint64 / Uint64 on a 64-bit limb
LittleEndianPutUint64(x) ==
    [k \in 1..8 |-> LimbVal({q - 8 * (k - 1) : q \in {r \in x : r \div 8 = k - 1}})]

LittleEndianUint64(b) ==
    UNION {{8 * (k - 1) + q : q \in LimbOf(b[k])} : k \in 1..8}

\* hash.Hash(a, b): the digest of a || b
Hash(a, b) == <<Len(a) + Len(b)>> \o a \o b

\* indexToBytes(i)
indexToBytes(i) == LittleEndianPutUint32(i)

\* adler32.Checksum(data), the value b<<16 | a kept as the pair <<a, b>>
RECURSIVE Adler32From(_, _, _)
Adler32From(data, a, b) ==
    IF data = <<>> THEN <<a, b>>
    ELSE LET a1 == (a + Head(data)) % 65521
         IN  Adler32From(Tail(data), a1, (b + a1) % 65521)

Adler32(data) == Adler32From(data, 1, 0)

\* int(math.Exp2(math.Ceil(math.Log2(float64(n))))), n >= 1
RECURSIVE NextPow2From(_, _)
NextPow2From(n, p) == IF p >= n THEN p ELSE NextPow2From(n, 2 * p)

NextPow2(n) == NextPow2From(n, 1)

\* node k of the tree over data with branchesLen leaves: the leaves are
\* nodes[i + branchesLen] = Hash(data[i], indexToBytes(i)), the padding is
\* zero blocks, a branch is the hash of its two children
RECURSIVE MerkleNode(_, _, _)
MerkleNode(data, branchesLen, k) ==
    IF k >= branchesLen
    THEN LET i == k - branchesLen
         IN  IF i < Len(data) THEN Hash(data[i + 1], indexToBytes(i))
             ELSE Hash([j \in 1..Len(data[1]) |-> 0], indexToBytes(i))
    ELSE Hash(MerkleNode(data, branchesLen, 2 * k),
              MerkleNode(data, branchesLen, 2 * k + 1))

\* the loop over the leaves from index i on, with the map md built so far:
\* md[checksum] = uint32(i), an entry 0 reads like no entry. With check, a
\* checksum whose entry is not 0 stops the loop at i (the test's t.Fatal);
\* without it the later block of a checksum takes the entry over
RECURSIVE MerkleIndexLoop(_, _, _, _)
MerkleIndexLoop(data, i, md, check) ==
    IF i >= Len(data) THEN [md |-> md, fatal |-> <<>>]
    ELSE LET checksum == Adler32(data[i + 1])
             seen == IF checksum \in DOMAIN md THEN md[checksum] ELSE 0
         IN  IF check /\ seen # 0
             THEN [md |-> md, fatal |-> <<i>>]
             ELSE MerkleIndexLoop(data, i + 1, (checksum :> i) @@ md, check)

\* md, the map from the checksum of a block to its index, or the index at
\* which the loop stopped with "collision in checksum output"
MerkleIndexMap(data) == MerkleIndexLoop(data, 0, <<>>, TRUE)

\* New(data): the binary tree over NextPow2(len(data)) leaves, kept as the
\* array of its nodes with the root at 1 and the children of k at 2k, 2k+1,
\* and the map md by which a block is looked up
MerkleNew(data) ==
    LET branchesLen == NextPow2(Len(data))
    IN  [n |-> branchesLen,
         nodes |-> [k \in 1..(2 * branchesLen - 1) |-> MerkleNode(data, branchesLen, k)],
         md |-> MerkleIndexLoop(data, 0, <<>>, FALSE).md]

\* tree.Root()
MerkleRoot(tree) == tree.nodes[1]

\* the siblings on the path from node k to the root
RECURSIVE SiblingPath(_, _)
SiblingPath(nodes, k) ==
    IF k <= 1 THEN <<>>
    ELSE <<nodes[IF k % 2 = 0 THEN k + 1 ELSE k - 1]>> \o SiblingPath(nodes, k \div 2)

\* tree.GenerateProof(data): the argument is the block, whose leaf is looked
\* up in md; the proof is the sibling path from that leaf to the root, plus
\* its index
GenerateProof(tree, data) ==
    IF Adler32(data) \notin DOMAIN tree.md
    THEN [err |-> "data not found", proof |-> <<>>]
    ELSE LET index == tree.md[Adler32(data)]
         IN  [err |-> "nil",
              proof |-> <<[Hashes |-> SiblingPath(tree.nodes, index + tree.n),
                           Index |-> index]>>]

\* the walk of VerifyProof from the leaf to the root: bit by bit of the
\* index, the node is the left child (bit 0) or the right child (bit 1)
RECURSIVE VerifyWalk(_, _, _)
VerifyWalk(h, k, hashes) ==
    IF hashes = <<>> THEN h
    ELSE VerifyWalk(IF k % 2 = 0 THEN Hash(h, Head(hashes)) ELSE Hash(Head(hashes), h),
                    k \div 2, Tail(hashes))

\* VerifyProof(data, proof, root)
VerifyProof(data, proof, root) ==
    VerifyWalk(Hash(data, indexToBytes(proof.Index)),
               proof.Index + Pow2(Len(proof.Hashes)), proof.Hashes) = root

\* the blocks of the model; the first two have the same Adler-32 checksum
MkBlocks == {<<1, 0, 1>>, <<0, 2, 0>>, <<0, 0, 0>>, <<2, 0, 0>>}

notMK == <<gfVars, anVars, pirVars, rqVars, pfVars, stVars, wkVars, muVars, lfVars, mbVars, xsVars, tbVars, rbVars, ivVars, ecVars, clVars>>

MKInit ==
    /\ gfIdle /\ anIdle /\ pirIdle /\ rqIdle /\ pfIdle /\ stIdle /\ wkIdle /\ muIdle /\ lfIdle /\ mbIdle /\ xsIdle /\ tbIdle /\ rbIdle /\ ivIdle /\ ecIdle /\ clIdle
    /\ mkPc = "data"
    /\ \E n \in 1..MaxBlocks : mkData \in [1..n -> MkBlocks]
    /\ mkTree = <<>> /\ mkProof = <<>> /\ mkProofFor = 0
    /\ mkVerified = <<>> /\ mkOther = <<>>

\* tree, err := New(data); require.NoError(t, err). For data on which the
\* loop over the leaves meets a checksum whose entry is not 0, either outcome
\* of New is taken: err, or the tree with the entry taken over
MKNew ==
    /\ mkPc = "data"
    /\ \/ /\ mkTree' = <<MerkleNew(mkData)>>
          /\ mkPc' = "built"
       \/ /\ MerkleIndexMap(mkData).fatal # <<>>
          /\ mkTree' = mkTree
          /\ mkPc' = "err"
    /\ UNCHANGED <<mkData, mkProof, mkProofFor, mkVerified, mkOther>>
    /\ UNCHANGED notMK

\* proof, err := tree.GenerateProof(data[i]); require.NoError(t, err)
MKGenerateProof ==
    /\ mkPc = "built"
    /\ \E i \in 1..Len(mkData) :
          /\ GenerateProof(mkTree[1], mkData[i]).err = "nil"
          /\ mkProof' = GenerateProof(mkTree[1], mkData[i]).proof
          /\ mkProofFor' = i
    /\ mkPc' = "proved"
    /\ UNCHANGED <<mkData, mkTree, mkVerified, mkOther>>
    /\ UNCHANGED notMK

\* vrf, err := VerifyProof(data[i], proof, tree.Root())
MKVerify ==
    /\ mkPc = "proved"
    /\ mkVerified' = <<VerifyProof(mkData[mkProofFor], mkProof[1], MerkleRoot(mkTree[1]))>>
    /\ mkPc' = "verified"
    /\ UNCHANGED <<mkData, mkTree, mkProof, mkProofFor, mkOther>>
    /\ UNCHANGED notMK

\* VerifyProof of the same proof for a block that is not data[i]
MKVerifyOther ==
    /\ mkPc = "verified"
    /\ \E other \in MkBlocks \ {mkData[mkProofFor]} :
          mkOther' = <<[block |-> other,
                        ok |-> VerifyProof(other, mkProof[1], MerkleRoot(mkTree[1]))]>>
    /\ mkPc' = "done"
    /\ UNCHANGED <<mkData, mkTree, mkProof, mkProofFor, mkVerified>>
    /\ UNCHANGED notMK

MKNext == MKNew \/ MKGenerateProof \/ MKVerify \/ MKVerifyOther

SpecMerkle == MKInit /\ [][MKNext]_vars

MaxHashes == 3

HashLength == 32

\* encodeProof with the index written big-endian
encodeProofBigEndianIndex(p) ==
    LittleEndianPutUint32(Len(p.Hashes)) \o Concat(p.Hashes)
        \o PutBigEndianUint64(p.Index)

\* encodeProof(p)
encodeProof(p) ==
    LittleEndianPutUint32(Len(p.Hashes)) \o Concat(p.Hashes)
        \o LittleEndianPutUint64(p.Index)

\* DecodeProof(p)
DecodeProof(p) ==
    LET numHashes == LittleEndianUint32(Slice(p, 0, 4))
    IN  [Hashes |-> [i \in 1..numHashes |->
                       Slice(p, 4 + HashLength * (i - 1), 4 + HashLength * i)],
         Index |-> LittleEndianUint64(Slice(p, Len(p) - 8, Len(p)))]

\* the inputs: 32-byte hashes and 64-bit indices
PfHash(seed) == [k \in 1..HashLength |-> (seed * k + 7 * seed) % 256]

PfHashes == {PfHash(seed) : seed \in {0, 1, 77}}

PfIndices == {{}, {0, 2}, {8, 9, 40}, {63, 31, 7}}

notPF == <<gfVars, anVars, pirVars, rqVars, mkVars, stVars, wkVars, muVars, lfVars, mbVars, xsVars, tbVars, rbVars, ivVars, ecVars, clVars>>

PFInit ==
    /\ gfIdle /\ anIdle /\ pirIdle /\ rqIdle /\ mkIdle /\ stIdle /\ wkIdle /\ muIdle /\ lfIdle /\ mbIdle /\ xsIdle /\ tbIdle /\ rbIdle /\ ivIdle /\ ecIdle /\ clIdle
    /\ pfPc = "proof"
    /\ \E n \in 0..MaxHashes, h \in [1..MaxHashes -> PfHashes], x \in PfIndices :
          pfProof = <<[Hashes |-> [k \in 1..n |-> h[k]], Index |-> x]>>
    /\ pfBytes = <<>> /\ pfDecoded = <<>>

\* b := EncodeProof(proof)
PFEncode ==
    /\ pfPc = "proof"
    /\ pfBytes' = encodeProof(pfProof[1])
    /\ pfPc' = "encoded"
    /\ UNCHANGED <<pfProof, pfDecoded>>
    /\ UNCHANGED notPF

\* p := DecodeProof(b)
PFDecode ==
    /\ pfPc = "encoded"
    /\ pfDecoded' = <<DecodeProof(pfBytes)>>
    /\ pfPc' = "decoded"
    /\ UNCHANGED <<pfProof, pfBytes>>
    /\ UNCHANGED notPF

PFNext == PFEncode \/ PFDecode

SpecProof == PFInit /\ [][PFNext]_vars

\* the number whose little-endian bytes are b (b short enough not to overflow)
RECURSIVE PfLittleEndianValue(_)
PfLittleEndianValue(b) ==
    IF b = <<>> THEN 0 ELSE Head(b) + 256 * PfLittleEndianValue(Tail(b))

\* C10: for a proof whose hashes are all 32 bytes long, decoding the encoding
\* gives the same hashes in the same order and the same index, and the
\* encoding is the 4-byte little-endian hash count, the hashes, and the 8-byte
\* little-endian index: 4 + 32*count + 8 bytes.
C10_ProofRoundTrip ==
    /\ pfPc \in {"encoded", "decoded"} =>
          LET p == pfProof[1]
              count == Len(p.Hashes)
          IN  /\ Len(pfBytes) = 4 + 32 * count + 8
              /\ PfLittleEndianValue(Slice(pfBytes, 0, 4)) = count
              /\ \A i \in 1..count :
                    Slice(pfBytes, 4 + 32 * (i - 1), 4 + 32 * i) = p.Hashes[i]
              /\ \A bit \in 0..63 :
                    bit \in p.Index <=>
                      (pfBytes[4 + 32 * count + (bit \div 8) + 1]
                          \div Pow2(bit % 8)) % 2 = 1
    /\ pfPc = "decoded" =>
          /\ pfDecoded[1].Hashes = pfProof[1].Hashes
          /\ pfDecoded[1].Index = pfProof[1].Index

\* a decoded proof of several different hashes whose index has bits in
\* more than one of its bytes
C10_Witness ==
    /\ pfPc = "decoded"
    /\ Len(pfProof[1].Hashes) = 3
    /\ pfProof[1].Hashes[1] # pfProof[1].Hashes[2]
    /\ pfProof[1].Index = {63, 31, 7}
    /\ pfDecoded = pfProof


(***************************************************************************)
(* Database persistence: DB.SaveDB and LoadDB over one bucket of a         *)
(* key-value store. The gob encoding of a chunk is its length followed by  *)
(* the 16 bytes of each element; that of saveInfo is the list of its       *)
(* numbers.                                                                *)
(***************************************************************************)
\* DefaultChunkSize, scaled down to the databases of the model
DefaultChunkSize == 2

\* const infoDbKey = "info", as bytes
infoDbKey == <<105, 110, 102, 111>>

\* NewDB(info): the number of elements of inMemory
NewDBLength(info) ==
    IF info.BlockSize = 0 THEN info.NumColumns * info.NumRows
    ELSE info.BlockSize * info.NumColumns * info.NumRows

\* gob.Encode / Decode of a []field.Element
GobEncodeElements(chunk) ==
    <<Len(chunk)>> \o Concat([k \in 1..Len(chunk) |-> ElementBytes(chunk[k])])

GobDecodeElements(b) ==
    [k \in 1..b[1] |-> NewElement(Slice(b, 1 + 16 * (k - 1), 1 + 16 * k))]

\* gob.Encode / Decode of a saveInfo
GobEncodeSaveInfo(si) ==
    <<si.Info.NumRows, si.Info.NumColumns, si.Info.BlockSize, Len(si.Chunks)>>
        \o Concat(si.Chunks)

GobDecodeSaveInfo(b) ==
    [Info |-> [NumRows |-> b[1], NumColumns |-> b[2], BlockSize |-> b[3]],
     Chunks |-> [k \in 1..b[4] |-> <<b[4 + 2 * k - 1], b[4 + 2 * k]>>]]

\* the key of the chunk that starts at i
ChunkKey(i) == LittleEndianPutUint64(LimbOf(i))

\* t.Bucket(bucket).Put(key, value)
BucketPut(store, key, value) == (key :> value) @@ store

\* the loop of SaveDB from offset i on: the chunks saved, as <<start, chunk>>
RECURSIVE SaveChunks(_, _, _, _)
SaveChunks(inMemory, n, i, chunkSize) ==
    IF i >= n THEN <<>>
    ELSE LET chunk == IF i + chunkSize >= n
                      THEN Slice(inMemory, i, Len(inMemory))
                      ELSE Slice(inMemory, i, i + chunkSize)
         IN  <<<<i, chunk>>>> \o SaveChunks(inMemory, n, i + chunkSize, chunkSize)

\* the bucket after the chunks have been put into it
RECURSIVE PutChunks(_, _)
PutChunks(store, chunks) ==
    IF chunks = <<>> THEN store
    ELSE PutChunks(BucketPut(store, ChunkKey(Head(chunks)[1]),
                             GobEncodeElements(Head(chunks)[2])),
                   Tail(chunks))

\* d.SaveDB(path, bucket): the bucket it leaves
SaveDB(d, chunkSize) ==
    LET n == d.Info.BlockSize * d.Info.NumColumns * d.Info.NumRows
        chunks == SaveChunks(d.inMemory, n, 0, chunkSize)
        saveInfo == [Info |-> d.Info,
                     Chunks |-> [k \in 1..Len(chunks) |->
                                   <<chunks[k][1], chunks[k][1] + Len(chunks[k][2])>>]]
    IN  BucketPut(PutChunks(<<>>, chunks), infoDbKey, GobEncodeSaveInfo(saveInfo))

\* the loop of LoadDB over saveInfo.Chunks
RECURSIVE LoadChunks(_, _, _)
LoadChunks(store, elements, chunks) ==
    IF chunks = <<>> THEN elements
    ELSE LET start == Head(chunks)[1]
             chunk == GobDecodeElements(store[ChunkKey(start)])
         IN  LoadChunks(store,
                        CopyInto(elements, start, start + Len(chunk), chunk),
                        Tail(chunks))

\* LoadDB(path, bucket)
LoadDB(store) ==
    LET saveInfo == GobDecodeSaveInfo(store[infoDbKey])
        info == saveInfo.Info
        n == info.BlockSize * info.NumColumns * info.NumRows
    IN  [Info |-> info,
         inMemory |-> LoadChunks(store, [k \in 1..n |-> Zero], saveInfo.Chunks)]

\* db.Update(fn) of a function that left the bucket as tx.bucket and returned
\* tx.err, with every write kept
UpdateKeepsWrites(before, tx) == tx.bucket

\* db.Update(fn): the transaction is committed when fn returns nil and rolled
\* back when it returns an error
Update(before, tx) == IF tx.err = "nil" THEN tx.bucket ELSE before

\* the Put calls of SaveDB's second transaction: one for each chunk, then the
\* one of the info record
SaveDBPuts(d, chunkSize) ==
    Len(SaveChunks(d.inMemory, d.Info.BlockSize * d.Info.NumColumns * d.Info.NumRows,
                   0, chunkSize)) + 1

\* the function SaveDB runs in its second transaction, when the Put number
\* fault returns an error (0: none does): the bucket it leaves and its result
SaveDBWrites(d, chunkSize, fault) ==
    LET n == d.Info.BlockSize * d.Info.NumColumns * d.Info.NumRows
        chunks == SaveChunks(d.inMemory, n, 0, chunkSize)
    IN  IF fault = 0
        THEN [bucket |-> SaveDB(d, chunkSize), err |-> "nil"]
        ELSE IF fault <= Len(chunks)
        THEN [bucket |-> PutChunks(<<>>, SubSeq(chunks, 1, fault - 1)),
              err |-> "failed to put chunk"]
        ELSE [bucket |-> PutChunks(<<>>, chunks), err |-> "failed to put info"]

\* d.SaveDB(path, bucket) on a file that holds the bucket or not: the file it
\* leaves and the error it returns
SaveDBOnFile(file, d, chunkSize, fault) ==
    IF file.exists
    THEN [exists |-> TRUE, bucket |-> file.bucket, err |-> "failed to create bucket"]
    ELSE LET tx == SaveDBWrites(d, chunkSize, fault)
         IN  [exists |-> TRUE,
              bucket |-> Update(<<>>, tx),
              err |-> IF tx.err = "nil" THEN "nil" ELSE "failed to save chunks"]

MaxSaves == 2

notST == <<gfVars, anVars, pirVars, rqVars, mkVars, pfVars, wkVars, muVars, lfVars, mbVars, xsVars, tbVars, rbVars, ivVars, ecVars, clVars>>

\* a DB made by NewDB and filled by SetEntry, and a file without the bucket
STInit ==
    /\ gfIdle /\ anIdle /\ pirIdle /\ rqIdle /\ mkIdle /\ pfIdle /\ wkIdle /\ muIdle /\ lfIdle /\ mbIdle /\ xsIdle /\ tbIdle /\ rbIdle /\ ivIdle /\ ecIdle /\ clIdle
    /\ stPc = "db"
    /\ \E g \in AnGeometries :
          LET info == [NumRows |-> g[1], NumColumns |-> g[2], BlockSize |-> g[3]]
          IN  \E e \in [1..NewDBLength(info) -> AnEntries] :
                stDb = [Info |-> info, inMemory |-> e]
    /\ stStore = <<>> /\ stLoaded = <<>>
    /\ stExists = FALSE
    /\ stBefore = [exists |-> FALSE, bucket |-> <<>>]
    /\ stErr = ""
    /\ stSaves = 0

\* d.SaveDB(path, bucket): on a fresh file, or on the file an earlier call
\* left; any of the Put calls may fail
STSave ==
    /\ stPc \in {"db", "saved"}
    /\ stSaves < MaxSaves
    /\ \E fault \in 0..SaveDBPuts(stDb, DefaultChunkSize) :
          LET r == SaveDBOnFile([exists |-> stExists, bucket |-> stStore],
                                stDb, DefaultChunkSize, fault)
          IN  /\ stStore' = r.bucket
              /\ stExists' = r.exists
              /\ stErr' = r.err
              /\ stPc' = IF r.err = "nil" THEN "saved" ELSE stPc
    /\ stBefore' = [exists |-> stExists, bucket |-> stStore]
    /\ stSaves' = stSaves + 1
    /\ UNCHANGED <<stDb, stLoaded>>
    /\ UNCHANGED notST

\* LoadDB(path, bucket)
STLoad ==
    /\ stPc = "saved"
    /\ stLoaded' = <<LoadDB(stStore)>>
    /\ stPc' = "loaded"
    /\ UNCHANGED <<stDb, stStore, stExists, stBefore, stErr, stSaves>>
    /\ UNCHANGED notST

STNext == STSave \/ STLoad

SpecStore == STInit /\ [][STNext]_vars

\* the chunk index saved under the info key
StChunkIndex == GobDecodeSaveInfo(stStore[infoDbKey]).Chunks

\* C11: LoadDB after a successful SaveDB returns a DB with the same Info and
\* the same element at every offset, single-bit DBs (BlockSize = 0) and DBs
\* of more than one chunk included, and the saved chunk index is a list of
\* contiguous, non-overlapping ranges covering every stored element once.
C11_SaveLoadRoundTrip ==
    /\ stPc \in {"saved", "loaded"} =>
          /\ \A k \in 1..Len(StChunkIndex) :
                /\ StChunkIndex[k][1] < StChunkIndex[k][2]
                /\ StChunkIndex[k][1] = IF k = 1 THEN 0 ELSE StChunkIndex[k - 1][2]
          /\ \A o \in 0..(Len(stDb.inMemory) - 1) :
                Cardinality({k \in 1..Len(StChunkIndex) :
                    StChunkIndex[k][1] <= o /\ o < StChunkIndex[k][2]}) = 1
    /\ stPc = "loaded" =>
          /\ stLoaded[1].Info = stDb.Info
          /\ stLoaded[1].inMemory = stDb.inMemory


\* the keys of the chunks the bucket holds
StChunkKeys == DOMAIN stStore \ {infoDbKey}

\* C30: a SaveDB that finds the bucket in the file, or one of whose writes
\* fails, returns an error and leaves the chunks and the info record stored in
\* the bucket as they were; and the bucket never holds chunks without the info
\* record that lists them.
C30_FailedSaveLeavesStoreUnchanged ==
    /\ (stSaves > 0 /\ stBefore.exists) => stErr = "failed to create bucket"
    /\ (stSaves > 0 /\ stErr # "nil") => stStore = stBefore.bucket
    /\ StChunkKeys # {} =>
          /\ infoDbKey \in DOMAIN stStore
          /\ StChunkKeys = {ChunkKey(StChunkIndex[k][1]) : k \in 1..Len(StChunkIndex)}

\* a second SaveDB on the bucket that holds the two chunks and the info
\* record of the first has returned its error
C30_Witness ==
    /\ stSaves = 2
    /\ stErr = "failed to create bucket"
    /\ Cardinality(StChunkKeys) = 2
    /\ stPc = "saved"


(***************************************************************************)
(* The goroutines of answer and answerPIR, step by step: the spawning      *)
(* loop, the workers, the reducer of the column path and the WaitGroup of  *)
(* the row path. The values are left out; what is kept is which worker     *)
(* contributed what to the output.                                         *)
(***************************************************************************)
MaxWorkerRows == 4

\* the multithreaded engines
WkEngines == {"answer", "answerPIR"}

\* the bound of the spawning loop: db.NumColumns or db.NumRows
WkMax(d) == IF d.NumRows = 1 THEN d.NumColumns ELSE d.NumRows

\* columnsPerCore / rowsPerCore before the loop
WkFirstStep(engine, d, numCores) ==
    IF d.NumRows = 1
    THEN DivideAndRoundUpToMultiple(d.NumColumns, numCores,
                                    IF engine = "answerPIR" THEN 8 ELSE 1)
    ELSE DivideAndRoundUpToMultiple(d.NumRows, numCores, 1)

\* the number of output slots one row takes: blockLen+1 elements in answer,
\* blockLen bytes in answerPIR
WkRowSlots(engine, d) ==
    IF engine = "answerPIR" THEN d.BlockSize ELSE d.BlockSize + 1

\* the output has make(..., NumRows*(BlockSize+1)) or NumRows*BlockSize slots
WkOutputLength(engine, d) == d.NumRows * WkRowSlots(engine, d)

\* the output slice handed to a row worker placed one slot short per row
WkRowRegionShort(engine, d, j, step, begin, end) ==
    <<j * d.BlockSize, (j + step) * d.BlockSize + 1>>

\* the output slice handed to the row worker of chunk (j, step, begin, end):
\* m[j*(BlockSize+1):(j+rowsPerCore)*(BlockSize+1)] in answer, m[begin:end]
\* in answerPIR, as <<lo, hi>>
WkRowRegion(engine, d, j, step, begin, end) ==
    IF engine = "answerPIR" THEN <<begin, end>>
    ELSE <<j * (d.BlockSize + 1), (j + step) * (d.BlockSize + 1)>>

\* wg.Wait() that does not wait
WaitReturnsAtOnce(wg) == wg >= 0

\* wg.Wait() returns when the counter is zero
WaitReturns(wg) == wg = 0

\* the reducer of the column path that stops one reply early
RepliesAwaitedButOne(nWrk) == nWrk - 1

\* the replies the reducer of the column path receives before it returns:
\*   for i := 0; i < nWrk; i++ { reply := <-workerReplies ... }
RepliesAwaited(nWrk) == nWrk

\* the capacity of resultsChan
WkChannelCapacity(engine, d, numCores) == numCores * WkRowSlots(engine, d)

WkGeometries ==
    {<<1, c, b>> : c \in {1, 2, 3, 9, 17}, b \in 1..MaxBlockSize}
      \cup {<<1, c, SingleBitBlockLength>> : c \in {1, 2}}
      \cup {<<r, c, b>> : r \in 2..MaxWorkerRows, c \in 1..2, b \in 1..MaxBlockSize}

notWK == <<gfVars, anVars, pirVars, rqVars, mkVars, pfVars, stVars, muVars, lfVars, mbVars, xsVars, tbVars, rbVars, ivVars, ecVars, clVars>>

\* answer / answerPIR entered, before the spawning loop
WKInit ==
    /\ gfIdle /\ anIdle /\ pirIdle /\ rqIdle /\ mkIdle /\ pfIdle /\ stIdle /\ muIdle /\ lfIdle /\ mbIdle /\ xsIdle /\ tbIdle /\ rbIdle /\ ivIdle /\ ecIdle /\ clIdle
    /\ wkPc = "loop"
    /\ wkEngine \in WkEngines
    /\ \E g \in WkGeometries :
          wkDb = [NumRows |-> g[1], NumColumns |-> g[2], BlockSize |-> g[3]]
    \* answer returns before it starts any worker when the block is one bit
    /\ wkDb.BlockSize = SingleBitBlockLength => wkEngine = "answerPIR"
    /\ wkCores \in 1..MaxCores
    /\ wkJ = 0
    /\ wkStep = WkFirstStep(wkEngine, wkDb, wkCores)
    /\ wkWorkers = <<>> /\ wkChan = <<>> /\ wkReceived = <<>>
    /\ wkWrites = [s \in 1..WkOutputLength(wkEngine, wkDb) |-> <<>>]
    /\ wkWg = 0

\* one iteration of the spawning loop
WKSpawn ==
    /\ wkPc = "loop"
    /\ wkJ < WkMax(wkDb)
    /\ LET c == computeChunkIndices(wkJ, wkStep, wkDb.BlockSize, WkMax(wkDb))
           region == IF wkDb.NumRows = 1 THEN <<0, 0>>
                     ELSE WkRowRegion(wkEngine, wkDb, wkJ, c[1], c[2], c[3])
       IN  /\ wkWorkers' = Append(wkWorkers,
                 [j |-> wkJ, step |-> c[1], begin |-> c[2], end |-> c[3],
                  lo |-> region[1], hi |-> region[2], rows |-> 0, done |-> FALSE])
           /\ wkStep' = c[1]
           /\ wkJ' = wkJ + c[1]
    /\ wkWg' = IF wkDb.NumRows = 1 THEN wkWg ELSE wkWg + 1
    /\ UNCHANGED <<wkPc, wkEngine, wkDb, wkCores, wkChan, wkReceived, wkWrites>>
    /\ UNCHANGED notWK

\* the loop ends: the reducer starts (column path) or wg.Wait() is reached
WKLoopEnd ==
    /\ wkPc = "loop"
    /\ wkJ >= WkMax(wkDb)
    /\ wkPc' = IF wkDb.NumRows = 1 THEN "combine" ELSE "wait"
    /\ UNCHANGED <<wkEngine, wkDb, wkCores, wkJ, wkStep, wkWorkers, wkChan,
                   wkReceived, wkWrites, wkWg>>
    /\ UNCHANGED notWK

\* processColumns / xorColumns: the worker computes its partial result and
\* sends it. xorValues divides by the block length, which panics when it is
\* 0; a send on the closed channel panics; a send waits while the buffer is
\* full.
WKSend ==
    /\ wkDb.NumRows = 1
    /\ wkPc \in {"loop", "combine", "done"}
    /\ \E k \in 1..Len(wkWorkers) :
          /\ ~wkWorkers[k].done
          /\ IF wkEngine = "answerPIR" /\ wkDb.BlockSize = 0
             THEN /\ wkPc' = "panic: integer divide by zero"
                  /\ UNCHANGED <<wkChan, wkWorkers>>
             ELSE IF wkPc = "done"
             THEN /\ wkPc' = "panic: send on closed channel"
                  /\ UNCHANGED <<wkChan, wkWorkers>>
             ELSE /\ Len(wkChan) < WkChannelCapacity(wkEngine, wkDb, wkCores)
                  /\ wkChan' = Append(wkChan, k)
                  /\ wkWorkers' = [wkWorkers EXCEPT ![k].done = TRUE]
                  /\ UNCHANGED wkPc
    /\ UNCHANGED <<wkEngine, wkDb, wkCores, wkJ, wkStep, wkReceived,
                   wkWrites, wkWg>>
    /\ UNCHANGED notWK

\* processRows / xorRows: the worker copies the result of its next row into
\* output[i*n:(i+1)*n], n the slots of a row
WKRowWrite ==
    /\ wkDb.NumRows > 1
    /\ \E k \in 1..Len(wkWorkers) :
          LET w == wkWorkers[k]
              n == WkRowSlots(wkEngine, wkDb)
              numRows == ((w.end - w.begin) * wkDb.NumColumns)
                            \div (wkDb.BlockSize * wkDb.NumColumns)
          IN  /\ w.rows < numRows
              /\ wkWrites' = [s \in DOMAIN wkWrites |->
                    IF /\ s > w.lo + w.rows * n
                       /\ s <= w.lo + (w.rows + 1) * n
                    THEN Append(wkWrites[s], k) ELSE wkWrites[s]]
              /\ wkWorkers' = [wkWorkers EXCEPT ![k].rows = w.rows + 1]
    /\ UNCHANGED <<wkPc, wkEngine, wkDb, wkCores, wkJ, wkStep, wkChan,
                   wkReceived, wkWg>>
    /\ UNCHANGED notWK

\* processRows / xorRows: wg.Done() after the last row
WKRowDone ==
    /\ wkDb.NumRows > 1
    /\ \E k \in 1..Len(wkWorkers) :
          LET w == wkWorkers[k]
          IN  /\ ~w.done
              /\ w.rows = ((w.end - w.begin) * wkDb.NumColumns)
                             \div (wkDb.BlockSize * wkDb.NumColumns)
              /\ wkWorkers' = [wkWorkers EXCEPT ![k].done = TRUE]
    /\ wkWg' = wkWg - 1
    /\ UNCHANGED <<wkPc, wkEngine, wkDb, wkCores, wkJ, wkStep, wkChan,
                   wkReceived, wkWrites>>
    /\ UNCHANGED notWK

\* combineColumnResults / combineColumnXORs: reply := <-workerReplies, added
WKReceive ==
    /\ wkPc = "combine"
    /\ Len(wkReceived) < RepliesAwaited(Len(wkWorkers))
    /\ wkChan # <<>>
    /\ wkReceived' = Append(wkReceived, Head(wkChan))
    /\ wkChan' = Tail(wkChan)
    /\ UNCHANGED <<wkPc, wkEngine, wkDb, wkCores, wkJ, wkStep, wkWorkers,
                   wkWrites, wkWg>>
    /\ UNCHANGED notWK

\* the engine returns: after numWorkers replies and close(resultsChan), or
\* when wg.Wait() returns
WKReturn ==
    /\ \/ wkPc = "combine" /\ Len(wkReceived) = RepliesAwaited(Len(wkWorkers))
       \/ wkPc = "wait" /\ WaitReturns(wkWg)
    /\ wkPc' = "done"
    /\ UNCHANGED <<wkEngine, wkDb, wkCores, wkJ, wkStep, wkWorkers, wkChan,
                   wkReceived, wkWrites, wkWg>>
    /\ UNCHANGED notWK

WKNext ==
    WKSpawn \/ WKLoopEnd \/ WKSend \/ WKRowWrite \/ WKRowDone \/ WKReceive
        \/ WKReturn

SpecWorkers == WKInit /\ [][WKNext]_vars

\* C12: the engine returns only after every worker it spawned has finished
\* its chunk and its result has been added to (column path) or written into
\* (row path) the output.
C12_NoPartialAnswer ==
    wkPc = "done" =>
        \A k \in 1..Len(wkWorkers) :
            /\ wkWorkers[k].done
            /\ IF wkDb.NumRows = 1
               THEN Cardinality({i \in 1..Len(wkReceived) : wkReceived[i] = k}) = 1
               ELSE \A s \in (wkWorkers[k].lo + 1)..wkWorkers[k].hi :
                       k \in {wkWrites[s][i] : i \in 1..Len(wkWrites[s])}

\* both paths with several workers have returned
C12_Witness ==
    /\ wkPc = "done" /\ Len(wkWorkers) = 3
    /\ wkDb.NumRows > 1 /\ wkEngine = "answerPIR" /\ wkDb.BlockSize = 2


\* C27: in the column path the result channel is closed only after every
\* spawned worker has completed its send -- no worker sends on the closed
\* channel, no worker is still to send when the engine has returned, and the
\* reducer has received exactly one reply from each worker.
C27_ChannelClosedAfterAllSends ==
    wkDb.NumRows = 1 =>
        /\ wkPc # "panic: send on closed channel"
        /\ wkPc = "done" =>
              /\ \A k \in 1..Len(wkWorkers) :
                    /\ wkWorkers[k].done
                    /\ Cardinality({i \in 1..Len(wkReceived) : wkReceived[i] = k}) = 1
              /\ Len(wkReceived) = Len(wkWorkers)
              /\ wkChan = <<>>

\* answerPIR has returned from the column path after three workers sent in
\* another order than they were started
C27_Witness ==
    /\ wkPc = "done" /\ wkDb.NumRows = 1 /\ wkEngine = "answerPIR"
    /\ Len(wkWorkers) = 3
    /\ wkReceived = <<3, 1, 2>>

\* C17: in the row path the output regions of different workers are pairwise
\* disjoint and together cover the output, each worker writes only inside
\* its own region, and every slot is written by exactly one worker.
C17_RowRegionsPartitionOutput ==
    wkDb.NumRows > 1 =>
        /\ \A k, l \in 1..Len(wkWorkers) :
              k # l => \/ wkWorkers[k].hi <= wkWorkers[l].lo
                       \/ wkWorkers[l].hi <= wkWorkers[k].lo
        /\ \A s \in DOMAIN wkWrites : \A i \in 1..Len(wkWrites[s]) :
              /\ wkWorkers[wkWrites[s][i]].lo < s
              /\ s <= wkWorkers[wkWrites[s][i]].hi
        /\ wkPc # "loop" =>
              \A s \in DOMAIN wkWrites : \E k \in 1..Len(wkWorkers) :
                  wkWorkers[k].lo < s /\ s <= wkWorkers[k].hi
        /\ wkPc = "done" => \A s \in DOMAIN wkWrites : Len(wkWrites[s]) = 1

\* answer has returned from the row path with two workers, one on two rows
\* and one on the remaining row
C17_Witness ==
    /\ wkPc = "done" /\ wkEngine = "answer"
    /\ wkDb.NumRows = 3 /\ wkDb.BlockSize = 2 /\ Len(wkWorkers) = 2
    /\ wkWrites[Len(wkWrites)] = <<2>>

\* C18: the chunks of the loop are contiguous, pairwise disjoint, never
\* extend past max and cover [0, max) exactly; only the last chunk may be
\* shorter than the ceiling-division step.
C18_ChunksPartitionRange ==
    wkPc # "off" =>
        LET n == Len(wkWorkers)
            max == WkMax(wkDb)
            first == WkFirstStep(wkEngine, wkDb, wkCores)
        IN  /\ \A k \in 1..n :
                  /\ wkWorkers[k].step >= 1
                  /\ wkWorkers[k].step <= first
                  /\ k < n => wkWorkers[k].step = first
                  /\ wkWorkers[k].j =
                        IF k = 1 THEN 0
                        ELSE wkWorkers[k - 1].j + wkWorkers[k - 1].step
                  /\ wkWorkers[k].j + wkWorkers[k].step <= max
                  /\ wkWorkers[k].begin = wkWorkers[k].j * wkDb.BlockSize
                  /\ wkWorkers[k].end =
                        (wkWorkers[k].j + wkWorkers[k].step) * wkDb.BlockSize
            /\ wkPc # "loop" =>
                  /\ n >= 1
                  /\ wkWorkers[n].j + wkWorkers[n].step = max

\* three chunks, the last one shorter than the step
C18_Witness ==
    /\ wkPc = "combine" /\ Len(wkWorkers) = 3
    /\ wkWorkers[3].step < wkWorkers[1].step
    /\ WkMax(wkDb) % wkCores # 0


(***************************************************************************)
(* Field multiplication on its own: field.Mul over a set of operands       *)
(***************************************************************************)

\* operands: the constants, single bits at the ends of both limbs, a full
\* limb, and mixed patterns
MulElements ==
    {Zero, One, Gen, AnElement1, AnElement2,
     [low |-> {0}, high |-> {}], [low |-> {}, high |-> {0}],
     [low |-> {}, high |-> {63}], [low |-> 0..63, high |-> {}],
     [low |-> {1, 33}, high |-> 0..63],
     [low |-> {63, 62, 61, 60}, high |-> {0, 1, 2, 3}],
     [low |-> {4, 8, 15, 16, 23, 42}, high |-> {31, 32}]}

notMU == <<gfVars, anVars, pirVars, rqVars, mkVars, pfVars, stVars, wkVars, lfVars, mbVars, xsVars, tbVars, rbVars, ivVars, ecVars, clVars>>

MUInit ==
    /\ gfIdle /\ anIdle /\ pirIdle /\ rqIdle /\ mkIdle /\ pfIdle /\ stIdle /\ wkIdle /\ lfIdle /\ mbIdle /\ xsIdle /\ tbIdle /\ rbIdle /\ ivIdle /\ ecIdle /\ clIdle
    /\ muPc = "operands"
    /\ muX \in MulElements
    /\ muY \in MulElements
    /\ muProduct = <<>>

\* z := Mul(x, y)
MUMul ==
    /\ muPc = "operands"
    /\ muProduct' = <<Mul(muX, muY)>>
    /\ muPc' = "done"
    /\ UNCHANGED <<muX, muY>>
    /\ UNCHANGED notMU

MUNext == MUMul

SpecMul == MUInit /\ [][MUNext]_vars

\* C14: One() (low = 1<<63, high = 0) is the identity of Mul, Zero() is
\* absorbing, and Mul is commutative.
C14_MulIdentityZeroCommutative ==
    muPc = "done" =>
        /\ One = [low |-> {63}, high |-> {}]
        /\ muY = One => muProduct[1] = muX
        /\ Mul(muX, One) = muX
        /\ muY = Zero => muProduct[1] = Zero
        /\ Mul(muX, Zero) = Zero
        /\ muProduct[1] = Mul(muY, muX)

\* a product of two operands that are neither Zero nor One, which needed
\* the reduction
C14_Witness ==
    /\ muPc = "done"
    /\ muX = AnElement1 /\ muY = AnElement2
    /\ muProduct[1] \notin {Zero, muX, muY}


(***************************************************************************)
(* The life of the ITSingleGF client state: one client that issues         *)
(* several queries and reconstructs the answers to them, in any order.     *)
(* The servers are honest.                                                 *)
(***************************************************************************)
MaxQueries == 2

MaxReconstructs == 2

\* the databases of this part: one with both bit values
LfEntries == {<<One, Zero, One, One>>, <<Zero, Zero, Zero, One>>}

\* the random vectors of this part
LfVectorReads(length) ==
    {Concat([k \in 1..length |-> blk[((k - 1) % 2) + 1]]) \o <<0>> :
        blk \in {<<BlockOf(128, 0), BlockOf(0, 1)>>,
                 <<BlockOf(128, 1), BlockOf(128, 0)>>}}

notLF == <<gfVars, anVars, pirVars, rqVars, mkVars, pfVars, stVars, wkVars, muVars, mbVars, xsVars, tbVars, rbVars, ivVars, ecVars, clVars>>

LFInit ==
    /\ gfIdle /\ anIdle /\ pirIdle /\ rqIdle /\ mkIdle /\ pfIdle /\ stIdle /\ wkIdle /\ muIdle /\ mbIdle /\ xsIdle /\ tbIdle /\ rbIdle /\ ivIdle /\ ecIdle /\ clIdle
    /\ lfPc = "idle"
    /\ lfRebalanced \in BOOLEAN
    /\ \E e \in LfEntries :
          lfDb = [Entries |-> e, NumRows |-> NumRowsOf(lfRebalanced),
                  NumColumns |-> NumColumnsOf(lfRebalanced),
                  BlockSize |-> SingleBitBlockLength]
    /\ lfState = <<>>
    /\ lfOwner = 0
    /\ lfIssued = <<>>
    /\ lfLog = <<>>

\* c.Query(index, 2) with a valid index, and the honest answers of the two
\* servers to it
LFQuery ==
    /\ lfPc \in {"idle", "queried", "reconstructed"}
    /\ Len(lfIssued) < MaxQueries
    /\ \E index \in 0..(DBLength - 1), alphaBytes \in XofBlocks :
          LET st == QueryState(lfRebalanced, index, RandomXOF(alphaBytes)) IN
          \E bytes \in LfVectorReads(st.dbLength) :
             LET v == secretSharing(st, 2, RandomVectorXOF(st.dbLength, bytes)) IN
             /\ ~invalidQueryInputs(index, 2)
             /\ lfState' = <<st>>
             /\ lfOwner' = Len(lfIssued) + 1
             /\ lfIssued' = Append(lfIssued,
                               [index |-> index,
                                answers |-> [k \in 1..2 |-> answerSingleBit(v[k], lfDb)]])
    /\ lfPc' = "queried"
    /\ UNCHANGED <<lfRebalanced, lfDb, lfLog>>
    /\ UNCHANGED notLF

\* c.Reconstruct(answers) with the answers to one of the issued queries
LFReconstruct ==
    /\ lfPc \in {"queried", "reconstructed"}
    /\ Len(lfLog) < MaxReconstructs
    /\ \E q \in 1..Len(lfIssued) :
          lfLog' = Append(lfLog,
                     [query |-> q,
                      owner |-> lfOwner,
                      result |-> Reconstruct(lfRebalanced, lfState[1],
                                             lfIssued[q].answers)])
    /\ lfPc' = "reconstructed"
    /\ UNCHANGED <<lfRebalanced, lfDb, lfState, lfOwner, lfIssued>>
    /\ UNCHANGED notLF

LFNext == LFQuery \/ LFReconstruct

SpecLife == LFInit /\ [][LFNext]_vars

\* C20: the state exists only between a Query and the Reconstruct that
\* follows it -- Reconstruct leaves no state behind, and every Reconstruct
\* works with the state stored by the query whose answers it is given, which
\* has not been reconstructed before.
C20_StateLivesFromQueryToReconstruct ==
    /\ lfPc = "reconstructed" => lfState = <<>>
    /\ \A n \in 1..Len(lfLog) :
          /\ lfLog[n].owner = lfLog[n].query
          /\ \A m \in 1..(n - 1) : lfLog[m].query # lfLog[n].query


(***************************************************************************)
(* The Merkle-augmented database: CreateRandomMultiBitMerkle. The rows of  *)
(* the database are byte slices; a block made by entriesToBlocks is a      *)
(* slice of its row and shares the row's memory, so an append to it that   *)
(* fits in the row's capacity writes into the row.                         *)
(***************************************************************************)
MaxMerkleRows == 2

MaxMerkleColumns == 3

MaxMerkleBlockLen == 2

\* a database wide enough for an encoded proof to fit behind a block of
\* its row: <<rows, columns, blockLen>>
MbWideGeometry == <<1, 4, 32>>

MbGeometries ==
    ((1..MaxMerkleRows) \X (1..MaxMerkleColumns) \X (1..MaxMerkleBlockLen))
        \cup {MbWideGeometry}

MbSeeds == {0, 1, 3, 7, 100}

\* CreateRandomMultiBitBytes: numRows rows of numColumns*blockLen bytes, each
\* row a slice of its own (capacity = length)
CreateRandomMultiBitBytes(seed, numRows, numColumns, blockLen) ==
    [Entries |-> [i \in 1..numRows |->
                    [k \in 1..(numColumns * blockLen) |->
                        (seed * (k + (i - 1) * numColumns * blockLen) + seed \div 7) % 256]],
     NumRows |-> numRows, NumColumns |-> numColumns, BlockSize |-> blockLen]

\* the block that starts at byte j of row i
BlockAt(e, blockLength, i, j) ==
    LET end == j + blockLength IN
    IF end > Len(e[1])
    THEN Slice(e[i], j, Len(e[1])) \o [k \in 1..(end - Len(e[1])) |-> 0]
    ELSE Slice(e[i], j, end)

\* entriesToBlocks(e, blockLength): the blocks, row after row
entriesToBlocks(e, blockLength) ==
    LET perRow == CeilDiv(Len(e[1]), blockLength) IN
    [p \in 1..(Len(e) * perRow) |->
        BlockAt(e, blockLength, ((p - 1) \div perRow) + 1, ((p - 1) % perRow) * blockLength)]

\* where block p (1-based) lies: its row, its offset, and whether it is a
\* slice of the row (a padded block is not, the row had no room for the pad)
BlockRef(e, blockLength, p) ==
    LET perRow == CeilDiv(Len(e[1]), blockLength)
        j == ((p - 1) % perRow) * blockLength
    IN  [row |-> ((p - 1) \div perRow) + 1, off |-> j,
         shared |-> j + blockLength <= Len(e[1])]

\* a digest written as HashLength bytes
DigestBytes(h) ==
    [k \in 1..HashLength |->
        IF k <= Len(h) THEN (h[k] + Len(h)) % 256 ELSE Len(h) % 256]

\* the leaves of the tree that hold block b
MerkleLeavesOf(blocks, b) == {j \in 1..Len(blocks) : blocks[j] = b}

\* proofs[i] = encodeProof(tree.GenerateProof(blocks[i])): the argument is
\* the block, so equal blocks get one proof, that of the first leaf holding
\* the block
MerkleProofs(blocks) ==
    LET tree == MerkleNew(blocks) IN
    [i \in 1..Len(blocks) |->
        LET index == (CHOOSE j \in MerkleLeavesOf(blocks, blocks[i]) :
                         \A k \in MerkleLeavesOf(blocks, blocks[i]) : j <= k) - 1
            p == [Hashes |-> SiblingPath(tree.nodes, index + tree.n), Index |-> index]
        IN
        encodeProof([Hashes |-> [k \in 1..Len(p.Hashes) |-> DigestBytes(p.Hashes[k])],
                     Index |-> LimbOf(p.Index)])]

\* the places the loop
\*   for i := range db.Entries { for j := 0; j < len(db.Entries[0])-bl; j += bl
\* visits, as the rows i in visiting order
MerkleLoopRows(e, bl) ==
    LET perRow == IF Len(e[1]) - bl <= 0 THEN 0 ELSE CeilDiv(Len(e[1]) - bl, bl) IN
    [n \in 1..(Len(e) * perRow) |-> ((n - 1) \div perRow) + 1]

\* the loop from its n-th step on: blocks are the blocks as entriesToBlocks
\* returned them, mem is the memory of the rows of db, ee the rows built so
\* far; step n appends append(blocks[p], proofs[p]...) with p = n - 1
\* (0-based) to ee[i]. A block that is a slice of its row is read from the
\* row's memory as it is now; a padded block is the copy entriesToBlocks made
RECURSIVE MerkleAugment(_, _, _, _, _, _, _)
MerkleAugment(n, loopRows, bl, proofs, blocks, mem, ee) ==
    IF n > Len(loopRows) \/ ee \notin Seq(Seq(0..255)) THEN ee
    ELSE LET ref == BlockRef(mem, bl, n)
             block == IF ref.shared THEN Slice(mem[ref.row], ref.off, ref.off + bl)
                      ELSE blocks[n]
             inPlace == ref.shared /\ ref.off + bl + Len(proofs[n]) <= Len(mem[ref.row])
             mem1 == IF inPlace
                     THEN [mem EXCEPT ![ref.row] =
                              CopyInto(@, ref.off + bl, ref.off + bl + Len(proofs[n]), proofs[n])]
                     ELSE mem
         IN  MerkleAugment(n + 1, loopRows, bl, proofs, blocks, mem1,
                           [ee EXCEPT ![loopRows[n]] = @ \o block \o proofs[n]])

\* the memory of the rows of db when the loop has ended: what the appends
\* that fitted in a row's capacity left there
RECURSIVE MerkleMemoryAfter(_, _, _, _, _)
MerkleMemoryAfter(n, loopRows, bl, proofs, mem) ==
    IF n > Len(loopRows) \/ mem \notin Seq(Seq(0..255)) THEN mem
    ELSE LET ref == BlockRef(mem, bl, n)
             inPlace == ref.shared /\ ref.off + bl + Len(proofs[n]) <= Len(mem[ref.row])
         IN  MerkleMemoryAfter(n + 1, loopRows, bl, proofs,
                 IF inPlace
                 THEN [mem EXCEPT ![ref.row] =
                          CopyInto(@, ref.off + bl, ref.off + bl + Len(proofs[n]), proofs[n])]
                 ELSE mem)

\* CreateRandomMultiBitMerkle, from the database CreateRandomMultiBitBytes made
CreateRandomMultiBitMerkle(d, numRows, blockLen) ==
    LET blocks == entriesToBlocks(d.Entries, blockLen)
        proofs == MerkleProofs(blocks)
        proofLen == Len(proofs[Len(proofs)])
    IN  [Entries |-> MerkleAugment(1, MerkleLoopRows(d.Entries, blockLen), blockLen,
                                   proofs, blocks, d.Entries,
                                   [i \in 1..Len(d.Entries) |-> <<>>]),
         NumRows |-> numRows,
         NumColumns |-> d.NumColumns,
         BlockSize |-> blockLen + proofLen,
         PIRType |-> "merkle",
         Root |-> MerkleRoot(MerkleNew(blocks)),
         ProofLen |-> proofLen]

notMB == <<gfVars, anVars, pirVars, rqVars, mkVars, pfVars, stVars, wkVars, muVars, lfVars, xsVars, tbVars, rbVars, ivVars, ecVars, clVars>>

MBInit ==
    /\ gfIdle /\ anIdle /\ pirIdle /\ rqIdle /\ mkIdle /\ pfIdle /\ stIdle /\ wkIdle /\ muIdle /\ lfIdle /\ xsIdle /\ tbIdle /\ rbIdle /\ ivIdle /\ ecIdle /\ clIdle
    /\ mbPc = "db"
    /\ \E g \in MbGeometries, seed \in MbSeeds :
          /\ mbDb = CreateRandomMultiBitBytes(seed, g[1], g[2], g[3])
          /\ mbBlockLen = g[3]
    /\ mbOut = <<>>

\* m := CreateRandomMultiBitMerkle(rnd, dbLen, numRows, blockLen): log.Fatalf
\* when merkletree.New has no block to build a tree over, or when
\* tree.GenerateProof(b) does not find the block b
MBCreate ==
    /\ mbPc = "db"
    /\ LET blocks == entriesToBlocks(mbDb.Entries, mbBlockLen) IN
       IF blocks = <<>>
       THEN /\ mbOut' = mbOut
            /\ mbPc' = "impossible to create Merkle tree"
       ELSE IF \E p \in 1..Len(blocks) : MerkleLeavesOf(blocks, blocks[p]) = {}
       THEN /\ mbOut' = mbOut
            /\ mbPc' = "error while generating proof for block"
       ELSE /\ mbOut' = CreateRandomMultiBitMerkle(mbDb, mbDb.NumRows, mbBlockLen)
            /\ mbPc' = "done"
    /\ UNCHANGED <<mbDb, mbBlockLen>>
    /\ UNCHANGED notMB

MBNext == MBCreate

SpecMerkleDB == MBInit /\ [][MBNext]_vars

\* the bytes stored in the returned database
MbStoredBytes == Len(Concat(mbOut.Entries))

\* C13: every row of the returned database holds NumColumns augmented blocks,
\* the p-th of them (row-major) is block p of the original database followed
\* by the encoded proof of block p, BlockSize = blockLen + ProofLen, and
\* rows*cols*BlockSize is the number of stored bytes.
C13_RowsHoldBlocksWithProofs ==
    mbPc = "done" =>
        LET blocks == entriesToBlocks(mbDb.Entries, mbBlockLen)
            proofs == MerkleProofs(blocks)
            bs == mbOut.BlockSize
        IN  /\ bs = mbBlockLen + mbOut.ProofLen
            /\ \A i \in 1..mbOut.NumRows :
                  Len(mbOut.Entries[i]) = mbOut.NumColumns * bs
            /\ mbOut.NumRows * mbOut.NumColumns * bs = MbStoredBytes
            /\ \A p \in 1..(mbOut.NumRows * mbOut.NumColumns) :
                  Slice(mbOut.Entries[((p - 1) \div mbOut.NumColumns) + 1],
                        ((p - 1) % mbOut.NumColumns) * bs,
                        (((p - 1) % mbOut.NumColumns) + 1) * bs)
                    = blocks[p] \o proofs[p]


\* C26: CreateRandomMultiBitMerkle leaves the blocks the tree was built over
\* as they were, and the block stored in front of proof p in the returned
\* database is the block whose leaf proof p authenticates.
C26_BlocksNotModified ==
    mbPc = "done" =>
        LET blocks == entriesToBlocks(mbDb.Entries, mbBlockLen)
            proofs == MerkleProofs(blocks)
            loopRows == MerkleLoopRows(mbDb.Entries, mbBlockLen)
            perRow == Len(loopRows) \div Len(mbDb.Entries)
            bs == mbOut.BlockSize
        IN  /\ entriesToBlocks(MerkleMemoryAfter(1, loopRows, mbBlockLen, proofs,
                                                 mbDb.Entries), mbBlockLen) = blocks
            /\ \A n \in 1..Len(loopRows) :
                  LET at == ((n - 1) % perRow) * bs IN
                  /\ Slice(mbOut.Entries[loopRows[n]], at + mbBlockLen, at + bs) = proofs[n]
                  /\ Slice(mbOut.Entries[loopRows[n]], at, at + mbBlockLen) = blocks[n]

(***************************************************************************)
(* Draws from one XOF: RandomXOF and RandomVectorXOF reading the same      *)
(* stream one after the other (RandomVectorPRG has the same body over a    *)
(* PRG reader).                                                            *)
(***************************************************************************)
MaxDraws == 3

MaxVectorLength == 2

\* the bytes the draws of the model can consume
XsStreamLength == MaxDraws * (16 * MaxVectorLength + 1)

XsSeeds == {1, 3, 7}

XsStreams ==
    {[p \in 1..XsStreamLength |-> (seed * p + (p \div 16)) % 256] : seed \in XsSeeds}

\* io.ReadFull(xof, buf) with len(buf) = n at stream offset off
XofRead(stream, off, n) == SubSeq(stream, off + 1, off + n)

notXS == <<gfVars, anVars, pirVars, rqVars, mkVars, pfVars, stVars, wkVars, muVars, lfVars, mbVars, tbVars, rbVars, ivVars, ecVars, clVars>>

XSInit ==
    /\ gfIdle /\ anIdle /\ pirIdle /\ rqIdle /\ mkIdle /\ pfIdle /\ stIdle /\ wkIdle /\ muIdle /\ lfIdle /\ mbIdle /\ tbIdle /\ rbIdle /\ ivIdle /\ ecIdle /\ clIdle
    /\ xsPc = "open"
    /\ xsStream \in XsStreams
    /\ xsOffset = 0
    /\ xsDraws = <<>>

\* RandomXOF(xof): 16 bytes, one element
XSRandomXOF ==
    /\ xsPc = "open"
    /\ Len(xsDraws) < MaxDraws
    /\ xsDraws' = Append(xsDraws,
                    [kind |-> "element", n |-> 1, start |-> xsOffset,
                     elements |-> <<RandomXOF(XofRead(xsStream, xsOffset, 16))>>])
    /\ xsOffset' = xsOffset + 16
    /\ UNCHANGED <<xsPc, xsStream>>
    /\ UNCHANGED notXS

\* RandomVectorXOF(length, xof)
XSRandomVectorXOF ==
    /\ xsPc = "open"
    /\ Len(xsDraws) < MaxDraws
    /\ \E length \in 0..MaxVectorLength :
          LET bytesLength == RandomVectorXOFBytes(length) IN
          /\ xsDraws' = Append(xsDraws,
                          [kind |-> "vector", n |-> length, start |-> xsOffset,
                           elements |-> RandomVectorXOF(length,
                                           XofRead(xsStream, xsOffset, bytesLength))])
          /\ xsOffset' = xsOffset + bytesLength
    /\ UNCHANGED <<xsPc, xsStream>>
    /\ UNCHANGED notXS

XSNext == XSRandomXOF \/ XSRandomVectorXOF

SpecStream == XSInit /\ [][XSNext]_vars

\* where the stream stands after draw d
XsEnd(d) == IF d = Len(xsDraws) THEN xsOffset ELSE xsDraws[d + 1].start

\* C21: a random vector of n elements consumes exactly 16*n bytes of the
\* stream and yields n elements, element k (from 0) being bytes 16k..16k+15
\* of them, so the draw after it starts 16*n bytes further on.
C21_VectorConsumes16n ==
    \A d \in 1..Len(xsDraws) :
        xsDraws[d].kind = "vector" =>
            /\ Len(xsDraws[d].elements) = xsDraws[d].n
            /\ \A k \in 1..xsDraws[d].n :
                  xsDraws[d].elements[k] =
                      NewElement(SubSeq(xsStream, xsDraws[d].start + 16 * (k - 1) + 1,
                                        xsDraws[d].start + 16 * k))
            /\ XsEnd(d) = xsDraws[d].start + 16 * xsDraws[d].n


(***************************************************************************)
(* Multiplication with a precomputed table: Element.PrecomputeMul and      *)
(* Element.MulBy on two Element objects e and y.                           *)
(***************************************************************************)
\* MulBy that takes the low limb of in before the high one
MulByLowLimbFirst(value, productTable, in) ==
    IF value.low = {} /\ value.high = {}
    THEN Zero
    ELSE MulSteps(Zero, <<in.low, in.high>>, productTable, 16)

\* e.MulBy(in): the value left in in
MulBy(value, productTable, in) ==
    IF value.low = {} /\ value.high = {}
    THEN Zero
    ELSE MulSteps(Zero, <<in.high, in.low>>, productTable, 16)

notTB == <<gfVars, anVars, pirVars, rqVars, mkVars, pfVars, stVars, wkVars, muVars, lfVars, mbVars, xsVars, rbVars, ivVars, ecVars, clVars>>

TBInit ==
    /\ gfIdle /\ anIdle /\ pirIdle /\ rqIdle /\ mkIdle /\ pfIdle /\ stIdle /\ wkIdle /\ muIdle /\ lfIdle /\ mbIdle /\ xsIdle /\ rbIdle /\ ivIdle /\ ecIdle /\ clIdle
    /\ tbPc = "fresh"
    /\ \E v \in MulElements :
          tbE = [value |-> v, productTable |-> [k \in 0..15 |-> Zero]]
    /\ \E v \in MulElements : tbY = [value |-> v]
    /\ tbBefore = <<>>

\* e.PrecomputeMul()
TBPrecomputeMul ==
    /\ tbPc = "fresh"
    /\ tbE' = [tbE EXCEPT !.productTable = createProductTable(tbE.value)]
    /\ tbPc' = "precomputed"
    /\ UNCHANGED <<tbY, tbBefore>>
    /\ UNCHANGED notTB

\* e.MulBy(y)
TBMulBy ==
    /\ tbPc = "precomputed"
    /\ tbBefore' = <<[e |-> tbE.value, y |-> tbY.value]>>
    /\ tbY' = [value |-> MulBy(tbE.value, tbE.productTable, tbY.value)]
    /\ tbPc' = "done"
    /\ UNCHANGED tbE
    /\ UNCHANGED notTB

TBNext == TBPrecomputeMul \/ TBMulBy

SpecMulBy == TBInit /\ [][TBNext]_vars

\* C22: after e.PrecomputeMul(), e.MulBy(y) leaves in y the value of Mul(e, y)
\* on the values before the call, and leaves the value of e as it was.
C22_MulByAgreesWithMul ==
    tbPc = "done" =>
        /\ tbY.value = Mul(tbBefore[1].e, tbBefore[1].y)
        /\ tbE.value = tbBefore[1].e

\* a product of two operands that are neither Zero nor One
C22_Witness ==
    /\ tbPc = "done"
    /\ tbBefore[1].e = AnElement2 /\ tbBefore[1].y = AnElement1
    /\ tbY.value \notin {Zero, AnElement1, AnElement2}


(***************************************************************************)
(* Rebalancing for any database length: CalculateNumRowsAndColumns and     *)
(* the rebalanced case of ITSingleGF.Query, with the length as an input.   *)
(***************************************************************************)
MaxDBLength == 10

IsPerfectSquare(n) == IntSqrt(n) * IntSqrt(n) = n

\* utils.IncreaseToNextSquare: the smallest perfect square that is >= n
RECURSIVE IncreaseToNextSquare(_)
IncreaseToNextSquare(n) ==
    IF IsPerfectSquare(n) THEN n ELSE IncreaseToNextSquare(n + 1)

\* CalculateNumRowsAndColumns(numBlocks, matrix); it has no error result
CalculateNumRowsAndColumns(numBlocks, matrix) ==
    LET n == IncreaseToNextSquare(numBlocks) IN
    IF matrix
    THEN [numRows |-> IntSqrt(n), numColumns |-> IntSqrt(n), err |-> "nil"]
    ELSE [numRows |-> 1, numColumns |-> n, err |-> "nil"]

notRB == <<gfVars, anVars, pirVars, rqVars, mkVars, pfVars, stVars, wkVars, muVars, lfVars, mbVars, xsVars, tbVars, ivVars, ecVars, clVars>>

RBInit ==
    /\ gfIdle /\ anIdle /\ pirIdle /\ rqIdle /\ mkIdle /\ pfIdle /\ stIdle /\ wkIdle /\ muIdle /\ lfIdle /\ mbIdle /\ xsIdle /\ tbIdle /\ ivIdle /\ ecIdle /\ clIdle
    /\ rbPc = "length"
    /\ rbN \in 1..MaxDBLength
    /\ rbGeometry = <<>>
    /\ rbIndex = 0
    /\ rbState = <<>>

\* numRows, numColumns := CalculateNumRowsAndColumns(N, true)
RBGeometry ==
    /\ rbPc = "length"
    /\ rbGeometry' = <<CalculateNumRowsAndColumns(rbN, TRUE)>>
    /\ rbPc' = "geometry"
    /\ UNCHANGED <<rbN, rbIndex, rbState>>
    /\ UNCHANGED notRB

\* the rebalanced case of c.Query(index, numServers) for a database of
\* length N; Query returns no error
RBQuery ==
    /\ rbPc = "geometry"
    /\ \E index \in 0..(rbN - 1), alphaBytes \in XofBlocks :
          /\ rbIndex' = index
          /\ rbState' = <<[st |-> RebalancedState(rbN, index, RandomXOF(alphaBytes)),
                           err |-> "nil"]>>
    /\ rbPc' = "queried"
    /\ UNCHANGED <<rbN, rbGeometry>>
    /\ UNCHANGED notRB

RBNext == RBGeometry \/ RBQuery

SpecRebalance == RBInit /\ [][RBNext]_vars

\* C23: when N is not a perfect square, building the rebalanced geometry or
\* a rebalanced query fails with InvalidArgument; when N is a perfect
\* square, ix = i mod sqrt(N), iy = i div sqrt(N) and iy*sqrt(N) + ix = i.
C23_RebalancingNeedsSquare ==
    /\ (rbGeometry # <<>> /\ ~IsPerfectSquare(rbN)) =>
          rbGeometry[1].err = "InvalidArgument"
    /\ (rbState # <<>> /\ ~IsPerfectSquare(rbN)) =>
          rbState[1].err = "InvalidArgument"
    /\ (rbState # <<>> /\ IsPerfectSquare(rbN)) =>
          LET root == IntSqrt(rbN) IN
          /\ rbState[1].err = "nil"
          /\ rbState[1].st.ix = rbIndex % root
          /\ rbState[1].st.iy = rbIndex \div root
          /\ rbState[1].st.iy * root + rbState[1].st.ix = rbIndex


(***************************************************************************)
(* The ITVector client: integers modulo cst.Modulo. The secret sharing and *)
(* the servers are those of the protocol: shares that add up to alpha at   *)
(* the index modulo the modulus, answers that are the inner product of the *)
(* database with the share, reduced modulo the modulus.                    *)
(***************************************************************************)
\* cst.Modulo, scaled down to a small prime
Modulo == 5

RECURSIVE SumInts(_)
SumInts(seq) == IF seq = <<>> THEN 0 ELSE Head(seq) + SumInts(Tail(seq))

\* the random shares a server can be given
IvShareVectors ==
    {[j \in 1..DBLength |-> (a * j + b) % Modulo] : a \in {0, 2}, b \in {1, 4}}

\* utils.AdditiveSecretSharing: numServers-1 random vectors, and a last one
\* that makes the sum alpha at the index and 0 elsewhere, modulo the modulus
AdditiveSecretSharing(alpha, modulo, index, dbLength, randoms) ==
    randoms \o
      <<[j \in 1..dbLength |->
            ((IF j - 1 = index THEN alpha ELSE 0)
               + modulo * Len(randoms)
               - SumInts([k \in 1..Len(randoms) |-> randoms[k][j]])) % modulo]>>

\* the answer of an honest server: the inner product modulo the modulus
IvAnswer(q, bits) ==
    SumInts([j \in 1..Len(q) |-> bits[j] * q[j]]) % Modulo

\* ITVector.Reconstruct(answers)
ITVectorReconstruct(st, ans) ==
    LET sum == SumInts(ans) IN
    IF sum = st.alpha THEN [val |-> <<1>>, err |-> "nil"]
    ELSE IF sum = 0 THEN [val |-> <<0>>, err |-> "nil"]
    ELSE [val |-> <<>>, err |-> "REJECT!"]

notIV == <<gfVars, anVars, pirVars, rqVars, mkVars, pfVars, stVars, wkVars, muVars, lfVars, mbVars, xsVars, tbVars, rbVars, ecVars, clVars>>

IVInit ==
    /\ gfIdle /\ anIdle /\ pirIdle /\ rqIdle /\ mkIdle /\ pfIdle /\ stIdle /\ wkIdle /\ muIdle /\ lfIdle /\ mbIdle /\ xsIdle /\ tbIdle /\ rbIdle /\ ecIdle /\ clIdle
    /\ ivPc = "idle"
    /\ ivDb \in [1..DBLength -> {0, 1}]
    /\ ivState = <<>>
    /\ ivVectors = <<>>
    /\ ivAnswers = <<>>
    /\ ivHonest = FALSE
    /\ ivResult = <<>>

\* c.Query(index, numServers) with valid inputs; alpha is rand.Int(xof, Modulo)
IVQuery ==
    /\ ivPc = "idle"
    /\ \E index \in 0..(DBLength - 1), numServers \in 1..MaxServers,
          alpha \in 0..(Modulo - 1) :
       \E randoms \in [1..(numServers - 1) -> IvShareVectors] :
          /\ ~ITVectorQueryPanics(index, numServers)
          /\ ivState' = <<[i |-> index, alpha |-> alpha]>>
          /\ ivVectors' = AdditiveSecretSharing(alpha, Modulo, index, DBLength, randoms)
    /\ ivPc' = "queried"
    /\ UNCHANGED <<ivDb, ivAnswers, ivHonest, ivResult>>
    /\ UNCHANGED notIV

\* every server answers its query vector honestly
IVAnswerHonest ==
    /\ ivPc = "queried"
    /\ ivAnswers' = [k \in 1..Len(ivVectors) |-> IvAnswer(ivVectors[k], ivDb)]
    /\ ivHonest' = TRUE
    /\ ivPc' = "answered"
    /\ UNCHANGED <<ivDb, ivState, ivVectors, ivResult>>
    /\ UNCHANGED notIV

\* the servers answer with any values in [0, Modulo)
IVAnswerAny ==
    /\ ivPc = "queried"
    /\ ivAnswers' \in [1..Len(ivVectors) -> 0..(Modulo - 1)]
    /\ ivHonest' = FALSE
    /\ ivPc' = "answered"
    /\ UNCHANGED <<ivDb, ivState, ivVectors, ivResult>>
    /\ UNCHANGED notIV

\* c.Reconstruct(answers)
IVReconstruct ==
    /\ ivPc = "answered"
    /\ ivResult' = <<ITVectorReconstruct(ivState[1], ivAnswers)>>
    /\ ivPc' = "done"
    /\ UNCHANGED <<ivDb, ivState, ivVectors, ivAnswers, ivHonest>>
    /\ UNCHANGED notIV

IVNext == IVQuery \/ IVAnswerHonest \/ IVAnswerAny \/ IVReconstruct

SpecVector == IVInit /\ [][IVNext]_vars

\* C24: Reconstruct adds the answers modulo the modulus: a sum congruent to
\* alpha gives 1, a sum congruent to 0 gives 0, every other sum is rejected,
\* and honest answers are never rejected.
C24_ReconstructAddsModulo ==
    ivPc = "done" =>
        LET sum == SumInts(ivAnswers) % Modulo
            r == ivResult[1]
        IN  /\ sum = ivState[1].alpha => (r.err = "nil" /\ r.val = <<1>>)
            /\ (sum = 0 /\ sum # ivState[1].alpha) => (r.err = "nil" /\ r.val = <<0>>)
            /\ (sum # 0 /\ sum # ivState[1].alpha) => r.err = "REJECT!"
            /\ ivHonest => r.err = "nil"


(***************************************************************************)
(* The repetition code: ECC.Encode and ECC.Decode                          *)
(***************************************************************************)
MaxT == 3

EccWords == {0, 1, 2}

\* e.Encode(in): t+1 copies of the word
ECCEncode(t, in) == [i \in 1..(t + 1) |-> in]

\* e.Decode(in): decoded stays in[0] (the votes counted by the first loop
\* are not used), count is the number of positions holding it
ECCDecode(t, in) ==
    LET decoded == in[1]
        count == Cardinality({i \in 1..Len(in) : in[i] = decoded})
    IN  IF count > t \div 2
        THEN [val |-> decoded, err |-> "nil"]
        ELSE [val |-> 0, err |-> "impossible to find a decoded word"]

notEC == <<gfVars, anVars, pirVars, rqVars, mkVars, pfVars, stVars, wkVars, muVars, lfVars, mbVars, xsVars, tbVars, rbVars, ivVars, clVars>>

ECInit ==
    /\ gfIdle /\ anIdle /\ pirIdle /\ rqIdle /\ mkIdle /\ pfIdle /\ stIdle /\ wkIdle /\ muIdle /\ lfIdle /\ mbIdle /\ xsIdle /\ tbIdle /\ rbIdle /\ ivIdle /\ clIdle
    /\ ecPc = "word"
    /\ ecT \in 0..MaxT
    /\ ecWord \in EccWords
    /\ ecIn = <<>>
    /\ ecOut = <<>>

\* code := e.Encode(word)
ECEncode ==
    /\ ecPc = "word"
    /\ ecIn' = ECCEncode(ecT, ecWord)
    /\ ecPc' = "encoded"
    /\ UNCHANGED <<ecT, ecWord, ecOut>>
    /\ UNCHANGED notEC

\* the code reaches the decoder with any of its words changed
ECReceive ==
    /\ ecPc = "encoded"
    /\ ecIn' \in [1..(ecT + 1) -> EccWords]
    /\ ecPc' = "received"
    /\ UNCHANGED <<ecT, ecWord, ecOut>>
    /\ UNCHANGED notEC

\* word, err := e.Decode(in)
ECDecode ==
    /\ ecPc \in {"encoded", "received"}
    /\ ecOut' = <<ECCDecode(ecT, ecIn)>>
    /\ ecPc' = "done"
    /\ UNCHANGED <<ecT, ecWord, ecIn>>
    /\ UNCHANGED notEC

ECNext == ECEncode \/ ECReceive \/ ECDecode

SpecECC == ECInit /\ [][ECNext]_vars

\* the number of positions of the input that hold w
EccCount(w) == Cardinality({i \in 1..Len(ecIn) : ecIn[i] = w})

\* C25: Decode is a majority vote -- a word on more than half of the t+1
\* positions is returned with no error wherever it first appears,
\* Decode(Encode(x)) = x, and a word returned without error is on more than
\* half of the positions.
C25_DecodeIsMajorityVote ==
    ecPc = "done" =>
        /\ \A w \in EccWords :
              2 * EccCount(w) > Len(ecIn) => ecOut[1] = [val |-> w, err |-> "nil"]
        /\ ecIn = ECCEncode(ecT, ecWord) => ecOut[1] = [val |-> ecWord, err |-> "nil"]
        /\ ecOut[1].err = "nil" => 2 * EccCount(ecOut[1].val) > Len(ecIn)


(***************************************************************************)
(* The client program: localClient.exec. retrieveDBInfo asks every server  *)
(* for its database info over one goroutine per connection, equalDBInfo     *)
(* compares what came back, and retrievePointPIR then builds the queries    *)
(* and sends them with runQueries, once for every block to retrieve.        *)
(***************************************************************************)
MaxRetrieveBlocks == 2

\* the DatabaseInfoResponse messages a server may send
ClInfoResponses ==
    { [NumRows |-> 1, NumColumns |-> 4, BlockLength |-> 2, PirType |-> "merkle", Root |-> <<7>>, ProofLen |-> 2],
      [NumRows |-> 1, NumColumns |-> 4, BlockLength |-> 3, PirType |-> "merkle", Root |-> <<7>>, ProofLen |-> 2],
      [NumRows |-> 1, NumColumns |-> 4, BlockLength |-> 2, PirType |-> "classic", Root |-> <<7>>, ProofLen |-> 2],
      [NumRows |-> 1, NumColumns |-> 4, BlockLength |-> 2, PirType |-> "merkle", Root |-> <<9>>, ProofLen |-> 2] }

\* dbInfo(ctx, conn, opts): the database.Info made of the server's answer
dbInfo(answer) ==
    [NumRows    |-> answer.NumRows,
     NumColumns |-> answer.NumColumns,
     BlockSize  |-> answer.BlockLength,
     PIRType    |-> answer.PirType,
     Merkle     |-> [Root |-> answer.Root, ProofLen |-> answer.ProofLen]]

\* equalDBInfo(info)
equalDBInfo(info) ==
    \A i \in 1..Len(info) :
        ~ \/ info[1].NumRows # info[i].NumRows
          \/ info[1].NumColumns # info[i].NumColumns
          \/ info[1].BlockSize # info[i].BlockSize

\* a result channel without a buffer
ResChUnbuffered(n) == 0

\* the capacity of resCh: make(chan ..., len(lc.connections))
ResChCapacity(n) == n

\* the request goroutine j of the running call sends: an empty
\* DatabaseInfoRequest, or QueryRequest{Query: queries[j]}
ClRequest(j) ==
    IF clPhase = "retrieveDBInfo" THEN <<>> ELSE clQueries[j]

\* what goroutine j of the running call puts on resCh once its server replied
ClResult(j) ==
    IF clPhase = "retrieveDBInfo"
    THEN dbInfo(clInfos[clConnOrder[j]])
    ELSE queryServer(clConnOrder[j], clQueries[j])

notCL == <<gfVars, anVars, pirVars, rqVars, mkVars, pfVars, stVars, wkVars, muVars, lfVars, mbVars, xsVars, tbVars, rbVars, ivVars, ecVars>>

\* exec starts: the client is connected to 2..MaxConnections servers and
\* retrieveDBInfo is at the top of its loop over lc.connections, which yields
\* the connections in some order
CLInit ==
    /\ gfIdle /\ anIdle /\ pirIdle /\ rqIdle /\ mkIdle /\ pfIdle /\ stIdle /\ wkIdle /\ muIdle /\ lfIdle /\ mbIdle /\ xsIdle /\ tbIdle /\ rbIdle /\ ivIdle /\ ecIdle
    /\ clPhase = "retrieveDBInfo"
    /\ clPc = "spawning"
    /\ \E n \in 2..MaxConnections :
          /\ clInfos \in [1..n -> ClInfoResponses]
          /\ clConnOrder \in ConnOrders(n)
    /\ clBlocks \in 1..MaxRetrieveBlocks
    /\ clRuns = 0
    /\ clQueries = <<>>
    /\ clSpawned = 0 /\ clWorker = <<>> /\ clRequests = {}
    /\ clResCh = <<>> /\ clWg = 0 /\ clOut = <<>>
    /\ clDbInfo = <<>>

\* one iteration of the loop over lc.connections: wg.Add(1); go func(conn)
CLSpawn ==
    /\ clPhase \in {"retrieveDBInfo", "runQueries"}
    /\ clPc = "spawning"
    /\ clSpawned < Len(clConnOrder)
    /\ clWg' = clWg + 1
    /\ clWorker' = Append(clWorker, "running")
    /\ clSpawned' = clSpawned + 1
    /\ UNCHANGED <<clPhase, clPc, clInfos, clConnOrder, clBlocks, clRuns, clQueries, clRequests, clResCh, clOut, clDbInfo>>
    /\ UNCHANGED notCL

\* the loop ends: the caller reaches wg.Wait()
CLLoopEnd ==
    /\ clPhase \in {"retrieveDBInfo", "runQueries"}
    /\ clPc = "spawning"
    /\ clSpawned = Len(clConnOrder)
    /\ clPc' = "waiting"
    /\ UNCHANGED <<clPhase, clInfos, clConnOrder, clBlocks, clRuns, clQueries, clSpawned, clWorker, clRequests, clResCh, clWg, clOut, clDbInfo>>
    /\ UNCHANGED notCL

\* goroutine j calls c.DatabaseInfo(ctx, q) or c.Query(ctx, q): the request
\* leaves for the server behind its connection
CLRequest ==
    /\ \E j \in 1..Len(clWorker) :
          /\ clWorker[j] = "running"
          /\ clWorker' = [clWorker EXCEPT ![j] = "called"]
          /\ clRequests' = clRequests \cup {[by |-> j, server |-> clConnOrder[j], query |-> ClRequest(j)]}
    /\ UNCHANGED <<clPhase, clPc, clInfos, clConnOrder, clBlocks, clRuns, clQueries, clSpawned, clResCh, clWg, clOut, clDbInfo>>
    /\ UNCHANGED notCL

\* the server replies: the call of goroutine j returns without an error
CLReply ==
    /\ \E j \in 1..Len(clWorker) :
          /\ clWorker[j] = "called"
          /\ clWorker' = [clWorker EXCEPT ![j] = "replied"]
    /\ UNCHANGED <<clPhase, clPc, clInfos, clConnOrder, clBlocks, clRuns, clQueries, clSpawned, clRequests, clResCh, clWg, clOut, clDbInfo>>
    /\ UNCHANGED notCL

\* goroutine j: resCh <- result; the send waits while the buffer is full
CLSend ==
    /\ \E j \in 1..Len(clWorker) :
          /\ clWorker[j] = "replied"
          /\ Len(clResCh) < ResChCapacity(Len(clConnOrder))
          /\ clResCh' = Append(clResCh, ClResult(j))
          /\ clWorker' = [clWorker EXCEPT ![j] = "sent"]
    /\ UNCHANGED <<clPhase, clPc, clInfos, clConnOrder, clBlocks, clRuns, clQueries, clSpawned, clRequests, clWg, clOut, clDbInfo>>
    /\ UNCHANGED notCL

\* goroutine j: wg.Done()
CLDone ==
    /\ \E j \in 1..Len(clWorker) :
          /\ clWorker[j] = "sent"
          /\ clWorker' = [clWorker EXCEPT ![j] = "done"]
    /\ clWg' = clWg - 1
    /\ UNCHANGED <<clPhase, clPc, clInfos, clConnOrder, clBlocks, clRuns, clQueries, clSpawned, clRequests, clResCh, clOut, clDbInfo>>
    /\ UNCHANGED notCL

\* retrieveDBInfo after wg.Wait(): close(resCh), the channel is drained into
\* dbInfo, and either log.Fatal ends the process or lc.dbInfo = dbInfo[0]
CLInfoCollect ==
    /\ clPhase = "retrieveDBInfo"
    /\ clPc = "waiting"
    /\ clWg = 0
    /\ clOut' = clResCh
    /\ clResCh' = <<>>
    /\ clPc' = "returned"
    /\ IF equalDBInfo(clResCh)
       THEN /\ clDbInfo' = <<clResCh[1]>>
            /\ clPhase' = "retrievePointPIR"
       ELSE /\ clDbInfo' = clDbInfo
            /\ clPhase' = "log.Fatal"
    /\ UNCHANGED <<clInfos, clConnOrder, clBlocks, clRuns, clQueries, clSpawned, clWorker, clRequests, clWg>>
    /\ UNCHANGED notCL

\* retrievePointPIR, one iteration up to the loop of runQueries:
\* queries := lc.vpirClient.QueryBytes(queryByte, len(lc.connections)), one
\* query for each connection, and runQueries(queries) starts; its range over
\* the map lc.connections yields the connections in an order of its own
CLQueryBytes ==
    /\ clPhase = "retrievePointPIR"
    /\ clRuns < clBlocks
    /\ clConnOrder' \in ConnOrders(Len(clConnOrder))
    /\ clRuns' = clRuns + 1
    /\ clQueries' = [k \in 1..Len(clConnOrder) |-> <<10 * (clRuns + 1) + k>>]
    /\ clPhase' = "runQueries"
    /\ clPc' = "spawning"
    /\ clSpawned' = 0 /\ clWorker' = <<>> /\ clRequests' = {} /\ clWg' = 0
    /\ clOut' = <<>>
    /\ UNCHANGED <<clInfos, clBlocks, clResCh, clDbInfo>>
    /\ UNCHANGED notCL

\* runQueries after wg.Wait(): close(resCh); the channel is drained into q,
\* which is returned to retrievePointPIR
CLQueryCollect ==
    /\ clPhase = "runQueries"
    /\ clPc = "waiting"
    /\ clWg = 0
    /\ clOut' = clResCh
    /\ clResCh' = <<>>
    /\ clPc' = "returned"
    /\ clPhase' = "retrievePointPIR"
    /\ UNCHANGED <<clInfos, clConnOrder, clBlocks, clRuns, clQueries, clSpawned, clWorker, clRequests, clWg, clDbInfo>>
    /\ UNCHANGED notCL

\* the loops of retrievePointPIR end and exec returns
CLReturn ==
    /\ clPhase = "retrievePointPIR"
    /\ clRuns = clBlocks
    /\ clPhase' = "done"
    /\ UNCHANGED <<clPc, clInfos, clConnOrder, clBlocks, clRuns, clQueries, clSpawned, clWorker, clRequests, clResCh, clWg, clOut, clDbInfo>>
    /\ UNCHANGED notCL

CLNext ==
    \/ CLSpawn \/ CLLoopEnd \/ CLRequest \/ CLReply \/ CLSend \/ CLDone
    \/ CLInfoCollect \/ CLQueryBytes \/ CLQueryCollect \/ CLReturn

SpecClient == CLInit /\ [][CLNext]_vars

\* the program does not stop while a step is possible: a goroutine that can
\* run is scheduled, and a server that was sent a request replies to it
SpecClientFair == CLInit /\ [][CLNext]_vars /\ WF_vars(CLNext)

\* the call that has just returned: retrieveDBInfo while no query was built
ClReturnedCall == IF clRuns = 0 THEN "retrieveDBInfo" ELSE "runQueries"

\* a fan-out call that has returned sent one request to each connection,
\* gave each query to one server, collected one result for each connection,
\* and left no goroutine behind
ClFanInComplete ==
    clPc = "returned" =>
        LET n == Len(clConnOrder) IN
        /\ Cardinality(clRequests) = n
        /\ \A c \in 1..n :
              Cardinality({r \in clRequests : r.server = c}) = 1
        /\ Len(clOut) = n
        /\ \A j \in 1..Len(clWorker) : clWorker[j] = "done"
        /\ Len(clWorker) = n
        /\ clResCh = <<>>
        /\ ClReturnedCall = "runQueries" =>
              /\ \A k \in 1..n :
                    Cardinality({r \in clRequests : r.query = clQueries[k]}) = 1
              /\ \A c \in 1..n :
                    Cardinality({i \in 1..n : clOut[i].server = c}) = 1
        /\ ClReturnedCall = "retrieveDBInfo" =>
              \A c \in 1..n :
                  Cardinality({i \in 1..n : clOut[i] = dbInfo(clInfos[c])})
                    = Cardinality({d \in 1..n : clInfos[d] = clInfos[c]})

\* a goroutine that holds its server's reply can always put it on resCh
ClNoBlockedSend ==
    \A j \in 1..Len(clWorker) :
        clWorker[j] = "replied" => Len(clResCh) < ResChCapacity(Len(clConnOrder))

\* C28: when every server replies, the fan-out calls of the client return:
\* exec ends (after its last runQueries, or in log.Fatal after
\* retrieveDBInfo); each call that returned has sent exactly one request to
\* each connection and each query to exactly one server and holds exactly one
\* result for each connection, and no goroutine is ever blocked on resCh.
C28_FanOutFanInTerminates ==
    /\ [](ClFanInComplete /\ ClNoBlockedSend)
    /\ <>(clPhase \in {"done", "log.Fatal"})

\* exec has returned after two runQueries calls over three connections, the
\* last of which collected the answers in another order than it started the
\* goroutines
C28_Witness ==
    /\ clPhase = "done"
    /\ Len(clConnOrder) = 3 /\ clRuns = 2
    /\ clConnOrder = <<2, 3, 1>>
    /\ clOut = <<queryServer(1, <<23>>), queryServer(2, <<21>>), queryServer(3, <<22>>)>>

\* C29: lc.dbInfo is set, and a query is built, only if every server reported
\* the same database info: rows, columns, block size, PIR mode and Merkle
\* root; when two servers differ the client aborts without a query.
C29_QueriesOnlyAfterAgreement ==
    (clDbInfo # <<>> \/ clRuns > 0 \/ clQueries # <<>>) =>
        \A a, b \in 1..Len(clInfos) :
            /\ clInfos[a].NumRows = clInfos[b].NumRows
            /\ clInfos[a].NumColumns = clInfos[b].NumColumns
            /\ clInfos[a].BlockLength = clInfos[b].BlockLength
            /\ clInfos[a].PirType = clInfos[b].PirType
            /\ clInfos[a].Root = clInfos[b].Root

=============================================================================
